---- MODULE Spec2Model ----
(***************************************************************************)
(* Meeting simulation engine of MeetingSim: the streaming orchestrator     *)
(* (backend/app/core/simulator_streaming.py), the chair and summarizer     *)
(* nodes and the option registry (meetingSim.py), and the participant turn *)
(* (Original/meetingSim.py), as one state machine, Spec.  SpecGraph is the *)
(* graph orchestrator of meetingSim.py (build_graph, run_meeting) with its *)
(* own participant turn, over the same variables.  The other               *)
(* specifications run the same handlers on other inputs: SpecNames (a      *)
(* roster without "Alice", returned names that are not in it),             *)
(* SpecSupplied (a stances argument), SpecInterrupt (three agents),        *)
(* SpecLong (runs deep enough for the turn thresholds), SpecTimeUp (runs   *)
(* past the turn limit of agent_step), SpecStages (turns whose next_stage  *)
(* is no stage), SpecStances (stance updates for names outside the         *)
(* roster), SpecRegistry (the functions of the option registry called one  *)
(* after another), SpecSanitize (sanitize_turn on turns of any form),      *)
(* SpecBest (best_option on the registries a meeting can hold),            *)
(* SpecPersuade (the persuasion attempt of agent_step on any stances) and  *)
(* SpecParallel (two runs in one process).  SpecStreams is the API layer   *)
(* (backend/app/api/meetings.py): the stream and stop requests and the     *)
(* table of cancel flags.                                                  *)
(*                                                                         *)
(* Representation.  A MeetingState is a record; every handler is an        *)
(* operator from a MeetingState (and the values the language model and the *)
(* random source return) to the result of running it, a record             *)
(* [s, exc]: the state it leaves and whether it raised.  A dialogue line   *)
(* is a record [n, tag, text]: its ordinal in the dialogue list, the stage *)
(* of its "[<stage>]" tag ("" when the line carries none) and the fixed    *)
(* part of its text (the sequence of its characters for the untagged       *)
(* decision lines).  state.dialogue keeps the ordinals of all lines (the   *)
(* list is append-only); state.appended keeps the full lines appended by   *)
(* the handler that ran last.  Python's None is the empty sequence for a   *)
(* decision (a decision is the sequence of the pieces of its f-string) and *)
(* 0 for an option reference; the option id "O<n>" is the number n.        *)
(* Affinities, interaction histories, goals and traits only feed           *)
(* probabilities that lie strictly between 0 and 1, and utilities that the *)
(* analyst's scores can put anywhere in [0,1]: the samples and the         *)
(* auto-votes they decide are inputs of the step.                          *)
(***************************************************************************)
EXTENDS Integers, Sequences, FiniteSets, TLC

\* ------------------------------------------------------------ constants

STAGES == <<"introduce", "clarify", "discuss", "options", "evaluate", "decide", "confirm">>

STANCE_ORDER == <<"against", "neutral", "for">>

NON_PERSON_MAP == {"all", "everyone", "team", "group", "committee", "room"}

VALID_REACTIONS == {"accept", "reject+propose", "decline"}

StageSet == {STAGES[i] : i \in DOMAIN STAGES}

StanceSet == {STANCE_ORDER[i] : i \in DOMAIN STANCE_ORDER}

\* STAGES.index(st)
StageIndex(st) == CHOOSE i \in DOMAIN STAGES : STAGES[i] = st

\* STANCE_ORDER.index(a)
StanceIndex(a) == CHOOSE i \in DOMAIN STANCE_ORDER : STANCE_ORDER[i] = a

\* max_turns of chair_step
max_turns == [introduce |-> 6, clarify |-> 6, discuss |-> 8, options |-> 6,
              evaluate |-> 6, decide |-> 4, confirm |-> 2]

\* agent_step: "if state['stage_turns'] > 10"
STAGE_TURN_LIMIT == 10

\* agent_step: "if state['turn'] > 40"
TURN_LIMIT == 40

\* agent_step: "state['interruptions_this_stage'] < 2"
MAX_INTERRUPTIONS == 2

\* agent_step: "state['accepts_this_stage'] >= 4"
ACCEPT_SPAM == 4

None == <<>>

CANCELLED_DECISION == <<"Meeting cancelled by user">>

SeqToSet(q) == {q[i] : i \in DOMAIN q}

\* The set of values of a dict.
Values(f) == {f[k] : k \in DOMAIN f}

\* ------------------------------------------------------------ dialogue

NewLine(s, tag, text) == [n |-> Len(s.dialogue) + 1, tag |-> tag, text |-> text]

\* state["dialogue"].append(f"[{tag}] {text}")
Say(s, tag, text) ==
    [s EXCEPT !.dialogue = Append(@, Len(@) + 1),
              !.appended = Append(@, NewLine(s, tag, text))]

\* ------------------------------------------------------------ state helpers

reset_stage_counters(s) ==
    [s EXCEPT !.interruptions_this_stage = 0,
              !.question_seen = {},
              !.accepts_this_stage = 0]

\* advance_stage(state, next_stage); next_stage = "" stands for None
advance_stage(s, next_stage) ==
    LET idx == StageIndex(s.stage)
        to  == IF next_stage \in StageSet THEN next_stage
               ELSE IF idx + 1 <= Len(STAGES) THEN STAGES[idx + 1]
               ELSE STAGES[Len(STAGES)]
    IN  reset_stage_counters([s EXCEPT !.stage = to, !.stage_turns = 0])

\* ------------------------------------------------------------ strings

\* An option text is the sequence of its characters.
UPPERCASE == <<"A", "B", "C", "D", "E", "F", "G", "H", "I", "J", "K", "L", "M",
               "N", "O", "P", "Q", "R", "S", "T", "U", "V", "W", "X", "Y", "Z">>

LOWERCASE == <<"a", "b", "c", "d", "e", "f", "g", "h", "i", "j", "k", "l", "m",
               "n", "o", "p", "q", "r", "s", "t", "u", "v", "w", "x", "y", "z">>

WHITESPACE == {" ", "\t", "\n"}

\* str.lower()
Lower(str) ==
    [i \in DOMAIN str |->
        IF \E k \in DOMAIN UPPERCASE : UPPERCASE[k] = str[i]
        THEN LOWERCASE[CHOOSE k \in DOMAIN UPPERCASE : UPPERCASE[k] = str[i]]
        ELSE str[i]]

\* str.strip()
Strip(str) ==
    LET ink == {i \in DOMAIN str : str[i] \notin WHITESPACE}
    IN  IF ink = {} THEN <<>>
        ELSE SubSeq(str, CHOOSE i \in ink : \A j \in ink : i <= j,
                         CHOOSE i \in ink : \A j \in ink : i >= j)

\* The length of the first run of non-whitespace characters of str.
TokenLen(str) ==
    IF \E i \in DOMAIN str : str[i] \in WHITESPACE
    THEN (CHOOSE i \in DOMAIN str :
              str[i] \in WHITESPACE /\ \A j \in 1..(i - 1) : str[j] \notin WHITESPACE) - 1
    ELSE Len(str)

\* str.split()
RECURSIVE Split(_)
Split(str) ==
    IF str = <<>> THEN <<>>
    ELSE IF Head(str) \in WHITESPACE THEN Split(Tail(str))
    ELSE <<SubSeq(str, 1, TokenLen(str))>> \o Split(SubSeq(str, TokenLen(str) + 1, Len(str)))

\* " ".join(tokens)
RECURSIVE Join(_)
Join(tokens) ==
    IF tokens = <<>> THEN <<>>
    ELSE IF Len(tokens) = 1 THEN tokens[1]
    ELSE tokens[1] \o <<" ">> \o Join(Tail(tokens))

\* _norm(s) = " ".join(s.lower().strip().split())
_norm(str) == Join(Split(Strip(Lower(str))))

\* ------------------------------------------------------------ option registry

\* new_option_id: the counter after the increment is the id
new_option_id(s) == [s EXCEPT !.option_counter = @ + 1]

\* The ids of the registry in dict order (insertion order: ascending).
OptionIds(s) == DOMAIN s.options

\* The first option whose text is text as written, without normalization; 0 if none.
FindDuplicate_exact(s, text) ==
    LET same == {o \in OptionIds(s) : s.options[o].text = text}
    IN  IF same = {} THEN 0 ELSE CHOOSE o \in same : \A p \in same : o <= p

\* The first option, in dict order, whose normalized text is that of text; 0 if none.
FindDuplicate(s, text) ==
    LET same == {o \in OptionIds(s) : _norm(s.options[o].text) = _norm(text)}
    IN  IF same = {} THEN 0 ELSE CHOOSE o \in same : \A p \in same : o <= p

\* register_option(state, text, proposer); attrs_ok: evaluate_option_attributes
\* returned (it raises when the analyst's call fails); oid: the id returned, 0 when
\* the call raised
register_option(s, text, proposer, attrs_ok) ==
    LET dup == FindDuplicate(s, text) IN
    IF dup # 0
    THEN [s   |-> [Say(s, s.stage, "(duplicate) Referencing existing")
                      EXCEPT !.options[dup].supporters = @ \cup {proposer}],
          exc |-> FALSE, oid |-> dup]
    ELSE LET s1  == new_option_id(s)
             oid == s1.option_counter
             opt == [text        |-> Strip(text),
                     proposer    |-> proposer,
                     supporters  |-> {proposer},
                     opponents   |-> {},
                     abstainers  |-> {},
                     first_stage |-> s1.stage,
                     first_turn  |-> s1.turn,
                     attributes  |-> "evaluated"]
             s2  == [s1 EXCEPT !.options = (oid :> opt) @@ @,
                               !.metrics.options_proposed = @ + 1]
         IN  IF attrs_ok
             THEN [s |-> Say(s2, s2.stage, "OPTION PROPOSED"), exc |-> FALSE, oid |-> oid]
             ELSE [s |-> s1, exc |-> TRUE, oid |-> 0]

\* A resolve_option_ref that falls back to the option allocated first.
resolve_option_ref_oldest(s, option_ref) ==
    IF option_ref # 0 /\ option_ref \in OptionIds(s) THEN option_ref
    ELSE IF OptionIds(s) # {}
         THEN CHOOSE o \in OptionIds(s) : \A p \in OptionIds(s) : o <= p
         ELSE 0

\* resolve_option_ref(state, option_ref); 0 stands for None
resolve_option_ref(s, option_ref) ==
    IF option_ref # 0 /\ option_ref \in OptionIds(s) THEN option_ref
    ELSE IF OptionIds(s) # {}
         THEN CHOOSE o \in OptionIds(s) : \A p \in OptionIds(s) : o >= p
         ELSE 0

\* A vote_option that withdraws a vote cast a second time: the voter is added to the
\* set of the vote only if the discards took the voter out of another set or of none.
vote_option_toggle(s, voter, option_ref, vote) ==
    LET oid == resolve_option_ref(s, option_ref) IN
    IF oid = 0
    THEN Say(s, s.stage, "(vote ignored) No option available to vote on.")
    ELSE LET info == s.options[oid]
             sup  == info.supporters \ {voter}
             opp  == info.opponents \ {voter}
             abst == info.abstainers \ {voter}
             cast == [info EXCEPT
                        !.supporters = IF vote = "support" /\ voter \notin info.supporters
                                       THEN sup \cup {voter} ELSE sup,
                        !.opponents  = IF vote = "oppose" /\ voter \notin info.opponents
                                       THEN opp \cup {voter} ELSE opp,
                        !.abstainers = IF vote \notin {"support", "oppose"}
                                          /\ voter \notin info.abstainers
                                       THEN abst \cup {voter} ELSE abst]
         IN  Say([s EXCEPT !.options[oid] = cast, !.metrics.votes_cast = @ + 1],
                 s.stage, "VOTE")

\* vote_option(state, voter, option_ref, vote, comment)
vote_option(s, voter, option_ref, vote) ==
    LET oid == resolve_option_ref(s, option_ref) IN
    IF oid = 0
    THEN Say(s, s.stage, "(vote ignored) No option available to vote on.")
    ELSE LET info == s.options[oid]
             sup  == info.supporters \ {voter}
             opp  == info.opponents \ {voter}
             abst == info.abstainers \ {voter}
             cast == [info EXCEPT
                        !.supporters = IF vote = "support" THEN sup \cup {voter} ELSE sup,
                        !.opponents  = IF vote # "support" /\ vote = "oppose"
                                       THEN opp \cup {voter} ELSE opp,
                        !.abstainers = IF vote # "support" /\ vote # "oppose"
                                       THEN abst \cup {voter} ELSE abst]
         IN  Say([s EXCEPT !.options[oid] = cast, !.metrics.votes_cast = @ + 1],
                 s.stage, "VOTE")

\* The sort key of best_option: (score, supporters, -first_turn, oid).
OptionKey(s, o) ==
    LET info == s.options[o]
    IN  <<Cardinality(info.supporters) - Cardinality(info.opponents),
          Cardinality(info.supporters), 0 - info.first_turn, o>>

\* Tuple comparison a > b of Python.
RECURSIVE TupleGreater(_, _)
TupleGreater(a, b) ==
    IF a = <<>> \/ b = <<>> THEN Len(a) > Len(b)
    ELSE IF Head(a) # Head(b) THEN Head(a) > Head(b)
    ELSE TupleGreater(Tail(a), Tail(b))

\* A best_option that sorts on (score, oid) alone, as best_option of meeting_sim.py
\* does: of the options with the highest score, the one registered last.
best_option_by_id(s) ==
    IF OptionIds(s) = {} THEN 0
    ELSE CHOOSE o \in OptionIds(s) :
            \A p \in OptionIds(s) \ {o} :
                TupleGreater(<<OptionKey(s, o)[1], o>>, <<OptionKey(s, p)[1], p>>)

\* best_option(state); 0 stands for None
best_option(s) ==
    IF OptionIds(s) = {} THEN 0
    ELSE CHOOSE o \in OptionIds(s) :
            \A p \in OptionIds(s) \ {o} : TupleGreater(OptionKey(s, o), OptionKey(s, p))

\* auto_vote_for_agent(state, agent); vote: the vote the adjusted utility maps to
auto_vote_for_agent(s, agent, vote) ==
    IF OptionIds(s) = {} THEN s
    ELSE LET oid  == resolve_option_ref(s, 0)
             info == s.options[oid]
         IN  IF agent \in (info.supporters \cup info.opponents \cup info.abstainers)
             THEN s
             ELSE vote_option(s, agent, oid, vote)

\* ------------------------------------------------------------ chair and summarizer

\* The result of a handler: the state it leaves, whether it raised, and whether it
\* called the language model.
Done(s, llm) == [s |-> s, exc |-> FALSE, llm |-> llm]

Raised(s) == [s |-> s, exc |-> TRUE, llm |-> TRUE]

\* A handler starts with no line appended yet.
Begin(s) == [s EXCEPT !.appended = <<>>]

\* The keys of state["stances"] in dict order: the roster, then the names that
\* stance_updates inserted.
StanceKeys(s) ==
    LET extra == (DOMAIN s.stances) \ SeqToSet(s.agents)
        RECURSIVE Order(_)
        Order(S) == IF S = {} THEN <<>>
                    ELSE LET k == CHOOSE k \in S : TRUE IN <<k>> \o Order(S \ {k})
    IN  SelectSeq(s.agents, LAMBDA a : a \in DOMAIN s.stances) \o Order(extra)

CountOf(s, v) == Cardinality({k \in DOMAIN s.stances : s.stances[k] = v})

\* Counter(state["stances"].values()) and max(counts, key=counts.get): the first
\* stance, in order of first appearance, held by a maximal number of keys.
ChairMajority(s) ==
    LET keys == StanceKeys(s)
        top  == {i \in DOMAIN keys :
                    \A j \in DOMAIN keys : CountOf(s, s.stances[keys[i]]) >= CountOf(s, s.stances[keys[j]])}
    IN  s.stances[keys[CHOOSE i \in top : \A j \in top : i <= j]]

\* A chair_step that moves on only when stage_turns exceeds the maximum of the stage.
chair_step_gt(s0, llm_ok) ==
    LET s     == Begin(s0)
        stage == s.stage
    IN
    IF s.stage_turns > max_turns[stage]
    THEN Done(advance_stage(
                 Say(s, stage, "CHAIR (Alice): We've had enough contributions here. Let's move on."),
                 ""), FALSE)
    ELSE IF stage \notin {"decide", "confirm"}
            /\ Cardinality(Values(s.stances)) = 1 /\ DOMAIN s.stances # {}
    THEN Done(advance_stage(
                 Say(s, stage, "CHAIR (Alice): It looks like we have consensus. Let's move forward."),
                 ""), FALSE)
    ELSE IF stage = "decide" /\ s.decision = None
    THEN LET oid == best_option(s) IN
         IF oid # 0
         THEN Done(advance_stage(
                      Say([s EXCEPT !.decision = <<oid, ": ", s.options[oid].text>>],
                          "decide", "CHAIR (Alice): Based on the votes, we'll adopt"),
                      "confirm"), FALSE)
         ELSE Done(advance_stage(
                      Say([s EXCEPT !.decision = <<ChairMajority(s)>>],
                          "decide", "CHAIR (Alice): We don't have a clear option, so I'm calling it"),
                      "confirm"), FALSE)
    ELSE IF stage = "confirm"
    THEN Done(Say(s, "confirm",
                  "CHAIR (Alice): Thank you everyone. The meeting is concluded. Final decision"),
              FALSE)
    ELSE IF ~llm_ok THEN Raised(s)
    ELSE Done([Say(s, stage, "CHAIR (Alice): <guidance>")
                  EXCEPT !.stage_turns = @ + 1, !.turn = @ + 1], TRUE)

\* chair_step(state); llm_ok: the chair's guidance call returned
chair_step(s0, llm_ok) ==
    LET s     == Begin(s0)
        stage == s.stage
    IN
    IF s.stage_turns >= max_turns[stage]
    THEN Done(advance_stage(
                 Say(s, stage, "CHAIR (Alice): We've had enough contributions here. Let's move on."),
                 ""), FALSE)
    ELSE IF stage \notin {"decide", "confirm"}
            /\ Cardinality(Values(s.stances)) = 1 /\ DOMAIN s.stances # {}
    THEN Done(advance_stage(
                 Say(s, stage, "CHAIR (Alice): It looks like we have consensus. Let's move forward."),
                 ""), FALSE)
    ELSE IF stage = "decide" /\ s.decision = None
    THEN LET oid == best_option(s) IN
         IF oid # 0
         THEN Done(advance_stage(
                      Say([s EXCEPT !.decision = <<oid, ": ", s.options[oid].text>>],
                          "decide", "CHAIR (Alice): Based on the votes, we'll adopt"),
                      "confirm"), FALSE)
         ELSE Done(advance_stage(
                      Say([s EXCEPT !.decision = <<ChairMajority(s)>>],
                          "decide", "CHAIR (Alice): We don't have a clear option, so I'm calling it"),
                      "confirm"), FALSE)
    ELSE IF stage = "confirm"
    THEN Done(Say(s, "confirm",
                  "CHAIR (Alice): Thank you everyone. The meeting is concluded. Final decision"),
              FALSE)
    ELSE IF ~llm_ok THEN Raised(s)
    ELSE Done([Say(s, stage, "CHAIR (Alice): <guidance>")
                  EXCEPT !.stage_turns = @ + 1, !.turn = @ + 1], TRUE)

\* summarizer_step(state); llm_ok: the summary call returned
summarizer_step(s0, llm_ok) ==
    LET s == Begin(s0) IN
    IF ~llm_ok THEN Raised(s)
    ELSE Done(Say(s, s.stage, "(Summary)"), TRUE)

\* ------------------------------------------------------------ sanitation

\* str(name).strip().lower() on the names the model draws from.
NameLower(name) ==
    CASE name = "Alice"    -> "alice"
      [] name = "ALICE"    -> "alice"
      [] name = "Bob"      -> "bob"
      [] name = " bob "    -> "bob"
      [] name = "Charlie"  -> "charlie"
      [] name = "Dana"     -> "dana"
      [] name = "Everyone" -> "everyone"
      [] name = "Zed"      -> "zed"
      [] OTHER             -> name

\* coerce_agent(name, state); "" stands for None and for the empty string
coerce_agent(name, s) ==
    IF name = "" THEN "Alice"
    ELSE IF NameLower(name) \in NON_PERSON_MAP THEN "Alice"
    ELSE LET hit == {i \in DOMAIN s.agents : NameLower(name) = NameLower(s.agents[i])}
         IN  IF hit # {} THEN s.agents[CHOOSE i \in hit : \A j \in hit : i <= j]
             ELSE "Alice"

\* The values pick_alternate(agent, state) can return.
pick_alternate(agent, s) ==
    LET others == {a \in SeqToSet(s.agents) : a # agent}
    IN  IF others # {} THEN others ELSE {agent}

StartsWith(str, prefix) ==
    Len(str) >= Len(prefix) /\ SubSeq(str, 1, Len(prefix)) = prefix

\* A reaction as the language model returns it is the sequence of its characters.
ACCEPT == <<"a", "c", "c", "e", "p", "t">>

REJECT_PROPOSE == <<"r", "e", "j", "e", "c", "t", "+", "p", "r", "o", "p", "o", "s", "e">>

DECLINE == <<"d", "e", "c", "l", "i", "n", "e">>

\* normalize_reaction(r)
normalize_reaction(r) ==
    LET rl == Lower(Strip(r)) IN
    IF r = <<>> THEN "accept"
    ELSE IF rl = ACCEPT THEN "accept"
    ELSE IF rl = REJECT_PROPOSE THEN "reject+propose"
    ELSE IF rl = DECLINE THEN "decline"
    ELSE IF \/ StartsWith(rl, <<"a", "c", "k", "n", "o", "w", "l", "e", "d">>)
            \/ StartsWith(rl, <<"a", "g", "r", "e", "e">>)
            \/ StartsWith(rl, <<"y", "e", "s">>)
    THEN "accept"
    ELSE IF \/ StartsWith(rl, <<"r", "e", "j", "e", "c", "t">>)
            \/ StartsWith(rl, <<"c", "o", "u", "n", "t", "e", "r">>)
            \/ StartsWith(rl, <<"p", "r", "o", "p", "o", "s">>)
    THEN "reject+propose"
    ELSE IF \/ StartsWith(rl, DECLINE)
            \/ StartsWith(rl, <<"n", "o">>)
            \/ StartsWith(rl, <<"d", "i", "s", "a", "g", "r", "e", "e">>)
    THEN "decline"
    ELSE "accept"

\* valid_next_stage(s)
valid_next_stage(x) == IF x \in StageSet THEN x ELSE "discuss"

\* sanitize_turn(parsed, state, caller_agent); alt1, alt2: what the two calls of
\* pick_alternate return when they are made
sanitize_turn(parsed, s, caller_agent, alt1, alt2) ==
    LET asker == coerce_agent(IF parsed.asker # "" THEN parsed.asker ELSE caller_agent, s)
        resp1 == coerce_agent(IF parsed.responder # "" THEN parsed.responder ELSE alt1, s)
        resp  == IF asker = resp1 THEN alt2 ELSE resp1
    IN  [parsed EXCEPT
            !.asker      = asker,
            !.responder  = resp,
            !.reaction   = normalize_reaction(parsed.reaction),
            !.next_stage = valid_next_stage(IF parsed.next_stage # "" THEN parsed.next_stage
                                            ELSE s.stage),
            !.message    = IF parsed.message = "" THEN "Noted." ELSE parsed.message]

\* The random draws sanitize_turn can make for a turn: <<alt1, alt2>>, each fixed to
\* the caller when its pick_alternate is not called.
AlternatePicks(parsed, s, caller_agent) ==
    LET asker == coerce_agent(IF parsed.asker # "" THEN parsed.asker ELSE caller_agent, s)
        A1    == IF parsed.responder # "" THEN {caller_agent} ELSE pick_alternate(asker, s)
    IN  UNION {
          LET resp1 == coerce_agent(IF parsed.responder # "" THEN parsed.responder ELSE a1, s)
          IN  {<<a1, a2>> : a2 \in IF asker = resp1 THEN pick_alternate(asker, s)
                                   ELSE {caller_agent}}
          : a1 \in A1}

\* ------------------------------------------------------------ participant turn

\* _toward moving all the way to b
_toward_jump(a, b) ==
    b

\* _toward(a, b): one step from stance a toward stance b
_toward(a, b) ==
    IF a = b THEN a
    ELSE STANCE_ORDER[StanceIndex(a) + (IF StanceIndex(b) > StanceIndex(a) THEN 1 ELSE -1)]

\* maybe_shift(listener) of agent_step; sway: random.random() < p
maybe_shift(s, listener, speaker, sp_target, stage, sway) ==
    IF listener = speaker THEN s
    ELSE IF sway
    THEN LET old == s.stances[listener]
             new == _toward(old, sp_target)
         IN  IF new # old
             THEN Say([s EXCEPT !.stances[listener] = new], stage, "(seems swayed)")
             ELSE s
    ELSE s

\* for k, v in parsed.stance_updates.items(): if v in STANCE_ORDER: stances[k] = v
apply_stance_updates(s, updates) ==
    LET ok == {k \in DOMAIN updates : updates[k] \in StanceSet}
    IN  [s EXCEPT !.stances = [k \in (DOMAIN s.stances) \cup ok |->
                                   IF k \in ok THEN updates[k] ELSE s.stances[k]]]

\* for a in state["agents"]: auto_vote_for_agent(state, a)
RECURSIVE auto_vote_all(_, _, _)
auto_vote_all(s, voters, votes) ==
    IF voters = <<>> THEN s
    ELSE auto_vote_all(auto_vote_for_agent(s, Head(voters), votes[Head(voters)]),
                       Tail(voters), votes)

\* counts = {for, against, neutral}; max(counts, key=counts.get)
AgentMajority(s) ==
    LET order == <<"for", "against", "neutral">>
        top   == {i \in DOMAIN order :
                     \A j \in DOMAIN order : CountOf(s, order[i]) >= CountOf(s, order[j])}
    IN  order[CHOOSE i \in top : \A j \in top : i <= j]

\* ">>> DECISION:"
DECISION_PREFIX == <<">", ">", ">", " ", "D", "E", "C", "I", "S", "I", "O", "N", ":">>

\* ">>> DECISION: Adopt", the fixed part of the line of an adopted option
DECISION_ADOPT == DECISION_PREFIX \o <<" ", "A", "d", "o", "p", "t">>

\* ">>> DECISION (fallback):", the fixed part of the line of a fallback decision
DECISION_FALLBACK ==
    <<">", ">", ">", " ", "D", "E", "C", "I", "S", "I", "O", "N", " ",
      "(", "f", "a", "l", "l", "b", "a", "c", "k", ")", ":">>

\* agent_step, "# decision": the two lines are written without a stage tag, and
\* their text is the sequence of its characters
materialize_decision(s) ==
    IF s.stage = "decide" /\ s.decision = None
    THEN LET oid == IF OptionIds(s) # {} THEN best_option(s) ELSE 0 IN
         IF oid # 0
         THEN Say([s EXCEPT !.decision = <<oid, ": ", s.options[oid].text>>],
                  "", DECISION_ADOPT)
         ELSE LET d == AgentMajority(s)
              IN  Say([s EXCEPT !.decision = <<d>>], "", DECISION_FALLBACK)
    ELSE s

\* agent_step, "# stage transitions"
stage_transitions(s, parsed, stage) ==
    IF Cardinality(Values(s.stances)) = 1
    THEN advance_stage(Say(s, stage, "Consensus reached -> moving to next stage."), "")
    ELSE IF parsed.end_stage /\ parsed.next_stage \in StageSet
    THEN advance_stage(s, parsed.next_stage)
    ELSE s

\* agent_step, "# interruptions": the interrupter, "" for None; r.cand is the
\* candidate random.choice picked when random.random() < interrupt_prob, "" otherwise
Interrupter(s, agent, parsed, r) ==
    IF /\ parsed.responder # agent
       /\ s.interruptions_this_stage < MAX_INTERRUPTIONS
       /\ r.cand \in SeqToSet(s.agents) \ {agent, parsed.responder}
    THEN r.cand ELSE ""

\* agent_step, "# interruptions": the interruption and the chair's call to order
interrupt(s, stage, interrupter) ==
    IF interrupter # ""
    THEN [Say(Say([s EXCEPT !.interruptions_this_stage = @ + 1], stage, "(INTERRUPTION)"),
              stage, "CHAIR (Alice): Let's take one at a time, please.")
            EXCEPT !.metrics.interruptions = @ + 1]
    ELSE s

\* agent_step, "# action item shortcut", up to the call of advance_stage
raise_action(s, stage, item) ==
    IF item \notin SeqToSet(s.actions)
    THEN [Say([s EXCEPT !.actions = Append(@, item)], stage, "ACTION RAISED")
            EXCEPT !.metrics.actions_raised = Len(s.actions) + 1]
    ELSE s

\* agent_step, "# lines" and "# negotiation"
say_turn(s, stage, parsed) ==
    IF parsed.negotiation_offer # ""
    THEN Say(Say(Say(Say(s, stage, "asks"), stage, "responds"), stage, "reacts"),
             stage, "NEGOTIATION OFFER")
    ELSE Say(Say(Say(s, stage, "asks"), stage, "responds"), stage, "reacts")

\* agent_step, "# reaction -> memory": accepts_this_stage
count_reaction(s, parsed) ==
    IF parsed.reaction = "accept"
    THEN [s EXCEPT !.accepts_this_stage = @ + 1]
    ELSE [s EXCEPT !.accepts_this_stage = IF @ - 1 > 0 THEN @ - 1 ELSE 0]

\* agent_step, "# accept spam control"
accept_spam_control(s, stage) ==
    IF s.accepts_this_stage >= ACCEPT_SPAM /\ stage \in {"discuss", "options", "evaluate"}
    THEN [Say(s, stage, "CHAIR (Alice): Let's hear a counterpoint before we proceed.")
            EXCEPT !.accepts_this_stage = 0]
    ELSE s

\* agent_step, "# options": the call of register_option
propose(s, parsed, r) ==
    IF parsed.option_proposal # <<>>
    THEN register_option(s, parsed.option_proposal, parsed.responder, r.attrs_ok)
    ELSE [s |-> s, exc |-> FALSE, oid |-> 0]

\* agent_step, "# options": the call of vote_option
cast_vote(s, parsed) ==
    IF parsed.option_vote # ""
    THEN vote_option(s, parsed.responder, parsed.option_ref, parsed.option_vote)
    ELSE s

\* agent_step, "# auto-vote in evaluate/decide"
auto_vote(s, stage, r) ==
    IF stage \in {"evaluate", "decide"} /\ OptionIds(s) # {}
    THEN auto_vote_all(s, s.agents, r.votes)
    ELSE s

\* agent_step, "# persuasion": sp_target is read before the first shift
persuade(s, stage, parsed, interrupter, r) ==
    LET speaker   == parsed.responder
        sp_target == IF speaker \in DOMAIN s.stances THEN s.stances[speaker] ELSE "neutral"
    IN  IF interrupter # ""
        THEN maybe_shift(maybe_shift(s, parsed.asker, speaker, sp_target, stage, r.sway_asker),
                         interrupter, speaker, sp_target, stage, r.sway_int)
        ELSE maybe_shift(s, parsed.asker, speaker, sp_target, stage, r.sway_asker)

\* agent_step, "# chair override"
chair_override(s, stage, parsed) ==
    IF parsed.chair_decision # ""
    THEN [Say(s, stage, "CHAIR DECISION") EXCEPT !.chair_used = TRUE]
    ELSE s

\* agent_step, "# bookkeeping"
bookkeeping(s) == [s EXCEPT !.turn = @ + 1]

\* agent_step from "# options" on, reg being what register_option left
finish_turn(reg, stage, parsed, interrupter, r) ==
    IF reg.exc THEN Raised(reg.s)
    ELSE Done(materialize_decision(
                bookkeeping(
                  stage_transitions(
                    chair_override(
                      persuade(auto_vote(cast_vote(reg.s, parsed), stage, r),
                               stage, parsed, interrupter, r),
                      stage, parsed),
                    parsed, stage))),
              TRUE)

\* agent_step from "# interruptions" to the accepts_this_stage update of
\* "# reaction -> memory"
speak(s1, stage, parsed, interrupter) ==
    count_reaction(
      apply_stance_updates(
        say_turn(
          interrupt([s1 EXCEPT !.question_seen =
                                  @ \cup {<<s1.stage, parsed.asker, parsed.question>>}],
                    stage, interrupter),
          stage, parsed),
        parsed.stance_updates),
      parsed)

\* agent_step from "# dedup questions" on; parsed: the sanitized turn.  update_affinity
\* reads state["affinity"][asker], which has a key for every agent of the roster and
\* no other: an asker outside the roster is a KeyError.
agent_turn(s1, agent, parsed, r) ==
    LET stage       == s1.stage
        dup_key     == <<s1.stage, parsed.asker, parsed.question>>
        interrupter == Interrupter(s1, agent, parsed, r)
    IN
    IF dup_key \in s1.question_seen
    THEN Done(advance_stage(
                 Say(s1, stage, "CHAIR (Alice): That's been asked already - let's move forward."),
                 ""), TRUE)
    ELSE IF parsed.action_item # ""
    THEN Done(advance_stage(
                 raise_action(
                   interrupt([s1 EXCEPT !.question_seen = @ \cup {dup_key}], stage, interrupter),
                   stage, parsed.action_item),
                 ""), TRUE)
    ELSE IF parsed.asker \notin SeqToSet(s1.agents)
    THEN Raised(speak(s1, stage, parsed, interrupter))
    ELSE finish_turn(
           propose(accept_spam_control(speak(s1, stage, parsed, interrupter), stage), parsed, r),
           stage, parsed, interrupter, r)

\* agent_step(state, agent); p: the candidate turn that ranks first, r: what the
\* language model calls and the random source return during the step
agent_step(s0, agent, p, r) ==
    LET s1    == [Begin(s0) EXCEPT !.stage_turns = @ + 1]
        stage == s1.stage
    IN
    IF s1.stage_turns > STAGE_TURN_LIMIT
    THEN Done(advance_stage(
                 Say(s1, stage, "CHAIR (Alice): We've spent enough time here, let's move on."),
                 ""), FALSE)
    ELSE IF s1.turn > TURN_LIMIT
    THEN Done(reset_stage_counters(
                 [Say(s1, stage, "Time's up! Chair forces decision.") EXCEPT !.stage = "decide"]),
              FALSE)
    ELSE IF ~r.llm_ok THEN Raised(s1)
    ELSE agent_turn(s1, agent, sanitize_turn(p, s1, agent, r.alt1, r.alt2), r)

\* ------------------------------------------------------------ inputs

\* The roster of the runs that are explored.
ROSTER == <<"Alice", "Bob">>

\* The runs are explored up to this many turns.
MaxTurn == 4

\* A turn as the language model returns it; "" stands for None or an empty string,
\* <<>> for an empty text, 0 for no option reference.
BaseTurn ==
    [asker |-> "", question |-> "q1", responder |-> "", message |-> "m",
     reaction |-> ACCEPT, stance_updates |-> [k \in {} |-> ""],
     chair_decision |-> "", end_stage |-> FALSE, next_stage |-> "",
     action_item |-> "", option_proposal |-> <<>>, option_ref |-> 0,
     option_vote |-> "", negotiation_offer |-> ""]

\* The turns the steps of Spec draw from: the base turn with one part changed.
Turns ==
    {BaseTurn}
    \cup {[BaseTurn EXCEPT !.reaction = DECLINE, !.responder = "Bob"]}
    \cup {[BaseTurn EXCEPT !.stance_updates = ("Bob" :> v)] : v \in {"for", "against"}}
    \cup {[BaseTurn EXCEPT !.end_stage = TRUE, !.next_stage = n] :
             n \in {"introduce", "evaluate", "decide", "confirm"}}
    \cup {[BaseTurn EXCEPT !.action_item = "a1"]}
    \cup {[BaseTurn EXCEPT !.option_proposal = x] : x \in {<<"x">>, <<"X", " ">>}}
    \cup {[BaseTurn EXCEPT !.option_vote = v, !.responder = "Alice"] : v \in {"support", "oppose"}}

VOTES == {"support", "oppose", "abstain"}

NoVotes(s) == [a \in SeqToSet(s.agents) |-> "abstain"]

\* The votes the auto-vote pass of a step on the sanitized turn q can cast: one for
\* each agent that has not voted on the option that is the most recent one when the
\* pass runs ("abstain" stands in for the agents the pass skips).
AutoVotes(s, q) ==
    LET fresh == q.option_proposal # <<>> /\ FindDuplicate(s, q.option_proposal) = 0
        voted == IF fresh THEN {q.responder}
                 ELSE IF OptionIds(s) = {} THEN SeqToSet(s.agents)
                 ELSE LET info == s.options[resolve_option_ref(s, 0)]
                      IN  info.supporters \cup info.opponents \cup info.abstainers
    IN  IF s.stage \in {"evaluate", "decide"}
        THEN {f \in [SeqToSet(s.agents) -> VOTES] :
                 \A a \in voted \cap SeqToSet(s.agents) : f[a] = "abstain"}
        ELSE {NoVotes(s)}

\* The agents that can cut in during a step of agent on the sanitized turn q.
InterruptCandidates(s, agent, q) ==
    IF q.responder # agent /\ s.interruptions_this_stage < MAX_INTERRUPTIONS
    THEN SeqToSet(s.agents) \ {agent, q.responder} ELSE {}

\* What the random source and the analyst can return during a step on the
\* sanitized turn q, the picks alt of pick_alternate given.
DrawsFor(s, agent, q, alt) ==
    UNION {
      {[llm_ok |-> TRUE, alt1 |-> alt[1], alt2 |-> alt[2], cand |-> c,
        sway_asker |-> sa, sway_int |-> si, attrs_ok |-> ok, votes |-> v] :
          sa \in BOOLEAN,
          si \in IF c = "" THEN {FALSE} ELSE BOOLEAN,
          ok \in IF q.option_proposal # <<>> /\ FindDuplicate(s, q.option_proposal) = 0
                 THEN BOOLEAN ELSE {TRUE},
          v  \in AutoVotes(s, q)}
      : c \in {""} \cup InterruptCandidates(s, agent, q)}

\* What the language model calls and the random source can return during an agent
\* step on turn p: r.llm_ok (plan, generate and critic returned), r.alt1 and r.alt2
\* (pick_alternate), r.cand (the agent that cuts in, "" when the interruption draw
\* fails), r.sway_asker and r.sway_int (the persuasion samples), r.attrs_ok (the
\* analyst returned), r.votes (the auto-votes).
Draws(s, agent, p) ==
    {[llm_ok |-> FALSE, alt1 |-> agent, alt2 |-> agent, cand |-> "",
      sway_asker |-> FALSE, sway_int |-> FALSE, attrs_ok |-> TRUE, votes |-> NoVotes(s)]}
    \cup
    UNION {DrawsFor(s, agent, sanitize_turn(p, s, agent, alt[1], alt[2]), alt)
           : alt \in AlternatePicks(p, s, agent)}

\* ------------------------------------------------------------ orchestrator

VARIABLES
    state,                  \* the MeetingState of the run
    pc,                     \* where the orchestrator stands
    agent_i,                \* the index of the for loop over agents
    previous_dialogue_len,  \* previous_dialogue_len
    events,                 \* the events yielded so far
    cancel_flag,            \* cancel_flag["cancelled"]
    cancel_seen,            \* the run has read cancel_flag["cancelled"] as True
    llm,                    \* the last step called the language model
    started,                \* chair_step has been called
    cancel_early,           \* the flag was set before chair_step was first called
    interrupted,            \* per stage, the "(INTERRUPTION)" lines appended with its tag
    op,                     \* the call of the option registry made last (SpecRegistry)
    sanitized,              \* the call of sanitize_turn made last (SpecSanitize)
    peer,                   \* a second run in the same process (SpecParallel)
    active_simulations,     \* stream_meeting.active_simulations (SpecStreams)
    streams,                \* the requests of stream_meeting (SpecStreams)
    meeting_status          \* meeting.status in the database, per meeting id (SpecStreams)

\* The variables of the API layer.
web == <<active_simulations, streams, meeting_status>>

vars == <<state, pc, agent_i, previous_dialogue_len, events, cancel_flag, cancel_seen, llm,
          started, cancel_early, interrupted, op, sanitized, peer, web>>

\* No second run.
NoPeer == [aliased |-> FALSE, s |-> <<>>]

\* One run, not started by a request of the API.
Alone ==
    /\ peer = NoPeer
    /\ active_simulations = <<>>
    /\ streams = <<>>
    /\ meeting_status = <<>>

\* initial_state of run_meeting_streaming
initial_state(agents) ==
    [stage |-> "introduce",
     dialogue |-> <<>>,
     appended |-> <<>>,
     agents |-> agents,
     stances |-> [a \in SeqToSet(agents) |-> "neutral"],
     turn |-> 0,
     decision |-> None,
     chair_used |-> FALSE,
     stage_turns |-> 0,
     actions |-> <<>>,
     options |-> <<>>,
     option_counter |-> 0,
     metrics |-> [interruptions |-> 0, actions_raised |-> 0,
                  options_proposed |-> 0, votes_cast |-> 0],
     question_seen |-> {},
     interruptions_this_stage |-> 0,
     accepts_this_stage |-> 0]

\* A call of the option registry: its ordinal n, the function called, its arguments
\* (text, who: the proposer or the voter, ref, vote), the id it returned or resolved
\* (oid), whether it raised (exc), and whether it repeats the call before it (again).
\* No call has been made:
NoOp == [n |-> 0, kind |-> "none", text |-> <<>>, who |-> "", ref |-> 0, vote |-> "",
         oid |-> 0, exc |-> FALSE, again |-> FALSE]

\* A call of sanitize_turn: its ordinal n, the agent whose step it is (caller), the
\* turn as the language model returned it (raw) and as sanitize_turn left it (turn).
\* No call has been made:
NoCall == [n |-> 0, caller |-> "", raw |-> BaseTurn, turn |-> BaseTurn]

\* The "(INTERRUPTION)" lines tagged st among lines.
Interruptions(lines, st) ==
    Cardinality({i \in DOMAIN lines : lines[i].tag = st /\ lines[i].text = "(INTERRUPTION)"})

\* The generator of run_meeting_streaming before its first step, s0 its initial_state.
InitRun(s0) ==
    /\ state = s0
    /\ pc = "loop"
    /\ agent_i = 1
    /\ previous_dialogue_len = 0
    /\ events = <<>>
    /\ cancel_flag = FALSE
    /\ cancel_seen = FALSE
    /\ llm = FALSE
    /\ started = FALSE
    /\ cancel_early = FALSE
    /\ interrupted = [st \in StageSet |-> 0]
    /\ op = NoOp
    /\ sanitized = NoCall

InitWith(s0) == InitRun(s0) /\ Alone

Init == InitWith(initial_state(ROSTER))

\* state.get("decision") or state.get("stage") == "confirm"
Terminal(s) == s.decision # None \/ s.stage = "confirm"

\* The slice taken one line late: state["dialogue"][previous_dialogue_len + 1:].
NewDialogueEvents_late(s, prev) ==
    [i \in 1..(Len(s.dialogue) - prev - 1) |->
        [type |-> "dialogue", line |-> s.dialogue[prev + 1 + i]]]

\* The events of: for line in state["dialogue"][previous_dialogue_len:]: yield ...
NewDialogueEvents(s, prev) ==
    [i \in 1..(Len(s.dialogue) - prev) |-> [type |-> "dialogue", line |-> s.dialogue[prev + i]]]

\* "Yield any new dialogue"
YieldNew(s) ==
    /\ events' = IF Len(s.dialogue) > previous_dialogue_len
                 THEN events \o NewDialogueEvents(s, previous_dialogue_len)
                 ELSE events
    /\ previous_dialogue_len' = IF Len(s.dialogue) > previous_dialogue_len
                                THEN Len(s.dialogue)
                                ELSE previous_dialogue_len

\* state["decision"] = "Meeting cancelled by user"; state["stage"] = "confirm"
MarkCancelled(s) == [s EXCEPT !.decision = CANCELLED_DECISION, !.stage = "confirm"]

\* A handler raised: the generator ends with the exception.
Abort(res) ==
    /\ state' = res.s
    /\ pc' = "raised"
    /\ llm' = res.llm
    /\ UNCHANGED <<agent_i, previous_dialogue_len, events, cancel_flag, cancel_seen, cancel_early>>

\* The stop request (or a disconnecting client) sets the flag.
Cancel ==
    /\ pc \notin {"done", "raised"}
    /\ ~cancel_flag
    /\ cancel_flag' = TRUE
    /\ cancel_early' = ~started
    /\ UNCHANGED <<state, pc, agent_i, previous_dialogue_len, events, cancel_seen, llm, started,
                   interrupted, op, sanitized, peer, web>>

\* while not cancel_flag["cancelled"]: the flag is clear
WhileEnter ==
    /\ pc = "loop"
    /\ ~cancel_flag
    /\ pc' = "round"
    /\ llm' = FALSE
    /\ UNCHANGED <<state, agent_i, previous_dialogue_len, events, cancel_flag, cancel_seen,
                   started, cancel_early, interrupted, op, sanitized, peer, web>>

\* while not cancel_flag["cancelled"]: the flag is set, the loop ends
WhileExit ==
    /\ pc = "loop"
    /\ cancel_flag
    /\ pc' = "build"
    /\ cancel_seen' = TRUE
    /\ llm' = FALSE
    /\ UNCHANGED <<state, agent_i, previous_dialogue_len, events, cancel_flag,
                   started, cancel_early, interrupted, op, sanitized, peer, web>>

\* "Check for cancellation before each step": the flag is set
RoundCancelled ==
    /\ pc = "round"
    /\ cancel_flag
    /\ state' = MarkCancelled(state)
    /\ pc' = "build"
    /\ cancel_seen' = TRUE
    /\ llm' = FALSE
    /\ UNCHANGED <<agent_i, previous_dialogue_len, events, cancel_flag, started, cancel_early,
                   interrupted, op, sanitized, peer, web>>

\* "Run chair step", "Yield any new dialogue", "Check if meeting should end", in
\* the runs explored up to bound turns
ChairTurnUpTo(bound) ==
    /\ pc = "round"
    /\ ~cancel_flag
    /\ state.turn < bound
    /\ started' = TRUE
    /\ UNCHANGED <<interrupted, op, sanitized, peer, web>>
    /\ \E llm_ok \in BOOLEAN :
         LET res == chair_step(state, llm_ok) IN
         IF res.exc THEN Abort(res)
         ELSE /\ state' = res.s
              /\ YieldNew(res.s)
              /\ pc' = IF Terminal(res.s) THEN "build" ELSE "agents"
              /\ agent_i' = 1
              /\ llm' = res.llm
              /\ UNCHANGED <<cancel_flag, cancel_seen, cancel_early>>

ChairTurn == ChairTurnUpTo(MaxTurn)

\* for agent in agents: the flag is set
AgentCancelled ==
    /\ pc = "agents"
    /\ cancel_flag
    /\ state' = MarkCancelled(state)
    /\ pc' = "after_agents"
    /\ cancel_seen' = TRUE
    /\ llm' = FALSE
    /\ UNCHANGED <<agent_i, previous_dialogue_len, events, cancel_flag, started, cancel_early,
                   interrupted, op, sanitized, peer, web>>

\* for agent in agents: agent_step, "Yield any new dialogue after each agent",
\* "Check if meeting should end"; the turn is drawn from T, the persuasion samples
\* from sway, in the runs explored up to bound turns
AgentTurnOf(T, sway, bound) ==
    /\ pc = "agents"
    /\ ~cancel_flag
    /\ state.turn < bound
    /\ UNCHANGED <<started, op, sanitized, peer, web>>
    /\ \E p \in T :
         \E r \in {d \in Draws([state EXCEPT !.stage_turns = @ + 1], state.agents[agent_i], p) :
                      d.sway_asker \in sway /\ d.sway_int \in sway} :
           LET res == agent_step(state, state.agents[agent_i], p, r) IN
           /\ interrupted' = [st \in StageSet |->
                                 interrupted[st] + Interruptions(res.s.appended, st)]
           /\ IF res.exc THEN Abort(res)
              ELSE /\ state' = res.s
                   /\ YieldNew(res.s)
                   /\ IF Terminal(res.s) \/ agent_i = Len(state.agents)
                      THEN pc' = "after_agents" /\ agent_i' = agent_i
                      ELSE pc' = "agents" /\ agent_i' = agent_i + 1
                   /\ llm' = res.llm
                   /\ UNCHANGED <<cancel_flag, cancel_seen, cancel_early>>

AgentTurn == AgentTurnOf(Turns, BOOLEAN, MaxTurn)

\* "If cancelled during agent loop, exit"
RoundBreak ==
    /\ pc = "after_agents"
    /\ cancel_flag \/ Terminal(state)
    /\ pc' = "build"
    /\ cancel_seen' = (cancel_seen \/ cancel_flag)
    /\ llm' = FALSE
    /\ UNCHANGED <<state, agent_i, previous_dialogue_len, events, cancel_flag,
                   started, cancel_early, interrupted, op, sanitized, peer, web>>

\* "Run summarizer step", "Yield any new dialogue", "Check if meeting should end
\* after summarizer", in the runs explored up to bound turns
SummarizerTurnUpTo(bound) ==
    /\ pc = "after_agents"
    /\ ~(cancel_flag \/ Terminal(state))
    /\ state.turn < bound
    /\ UNCHANGED <<started, interrupted, op, sanitized, peer, web>>
    /\ \E llm_ok \in BOOLEAN :
         LET res == summarizer_step(state, llm_ok) IN
         IF res.exc THEN Abort(res)
         ELSE /\ state' = res.s
              /\ YieldNew(res.s)
              /\ pc' = IF Terminal(res.s) THEN "build" ELSE "loop"
              /\ llm' = res.llm
              /\ UNCHANGED <<agent_i, cancel_flag, cancel_seen, cancel_early>>

SummarizerTurn == SummarizerTurnUpTo(MaxTurn)

\* "Build summaries": build_options_summary and summarize_meeting, a call of the
\* language model that returns or raises
BuildSummaries ==
    /\ pc = "build"
    /\ \E llm_ok \in BOOLEAN : pc' = IF llm_ok THEN "final" ELSE "raised"
    /\ llm' = TRUE
    /\ UNCHANGED <<state, agent_i, previous_dialogue_len, events, cancel_flag, cancel_seen,
                   started, cancel_early, interrupted, op, sanitized, peer, web>>

\* "Yield final result"
YieldFinal ==
    /\ pc = "final"
    /\ events' = Append(events, [type |-> "final", decision |-> state.decision,
                                 cancelled |-> cancel_flag])
    /\ pc' = "done"
    /\ llm' = FALSE
    /\ UNCHANGED <<state, agent_i, previous_dialogue_len, cancel_flag, cancel_seen,
                   started, cancel_early, interrupted, op, sanitized, peer, web>>

Next ==
    \/ Cancel
    \/ WhileEnter
    \/ WhileExit
    \/ RoundCancelled
    \/ ChairTurn
    \/ AgentCancelled
    \/ AgentTurn
    \/ RoundBreak
    \/ SummarizerTurn
    \/ BuildSummaries
    \/ YieldFinal

Spec == Init /\ [][Next]_vars

\* ------------------------------------------------------------ graph orchestrator

\* agent_step of meetingSim.py, the node build_graph adds for each attendee; r.llm_ok:
\* plan_step returned.  update_affinity, after the options and votes, is a KeyError
\* for an asker outside the roster.
agent_step_graph(s0, agent, p, r) ==
    LET s     == Begin(s0)
        stage == s.stage
    IN
    IF ~r.llm_ok THEN Raised(s)
    ELSE
    LET parsed == sanitize_turn(p, s, agent, r.alt1, r.alt2)
        s1  == Say(Say(Say(s, stage, "asks"), stage, "responds"), stage, "reacts")
        reg == IF parsed.option_proposal # <<>>
               THEN register_option(s1, parsed.option_proposal, parsed.responder, r.attrs_ok)
               ELSE [s |-> s1, exc |-> FALSE, oid |-> 0]
    IN
    IF reg.exc THEN Raised(reg.s)
    ELSE
    LET s2 == IF parsed.option_vote # ""
              THEN vote_option(reg.s, parsed.responder, parsed.option_ref, parsed.option_vote)
              ELSE reg.s
    IN  IF parsed.asker \notin SeqToSet(s.agents) THEN Raised(s2)
        ELSE Done([s2 EXCEPT !.turn = @ + 1], TRUE)

\* The turns the attendee nodes of SpecGraph draw from.
GraphTurns ==
    {BaseTurn}
    \cup {[BaseTurn EXCEPT !.option_proposal = <<"x">>]}
    \cup {[BaseTurn EXCEPT !.option_vote = "oppose", !.responder = "Alice"]}

\* What the planner, the random source and the analyst can return during a step of
\* an attendee node on turn p.
GraphDraws(s, agent, p) ==
    {[llm_ok |-> FALSE, alt1 |-> agent, alt2 |-> agent, attrs_ok |-> TRUE]}
    \cup
    {[llm_ok |-> TRUE, alt1 |-> alt[1], alt2 |-> alt[2], attrs_ok |-> ok] :
        alt \in AlternatePicks(p, s, agent),
        ok  \in IF p.option_proposal # <<>> /\ FindDuplicate(s, p.option_proposal) = 0
                THEN BOOLEAN ELSE {TRUE}}

\* route_after_summary(state): END or "chair"
route_after_summary(s) == IF s.stage = "confirm" \/ s.decision # None THEN "END" ELSE "chair"

\* run_meeting: meeting_model.invoke(initial_state) enters the graph at START -> chair
InitGraphWith(s0) ==
    /\ state = s0
    /\ pc = "chair"
    /\ agent_i = 1
    /\ previous_dialogue_len = 0
    /\ events = <<>>
    /\ cancel_flag = FALSE
    /\ cancel_seen = FALSE
    /\ llm = FALSE
    /\ started = FALSE
    /\ cancel_early = FALSE
    /\ interrupted = [st \in StageSet |-> 0]
    /\ op = NoOp
    /\ sanitized = NoCall
    /\ Alone

InitGraph == InitGraphWith(initial_state(ROSTER))

\* The part of the variables the graph orchestrator never writes.
GraphFrame ==
    UNCHANGED <<previous_dialogue_len, events, cancel_flag, cancel_seen, cancel_early,
                interrupted, op, sanitized, peer, web>>

\* node "chair", edge chair -> agents[0]
GraphChair ==
    /\ pc = "chair"
    /\ \E llm_ok \in BOOLEAN :
         LET res == chair_step(state, llm_ok) IN
         /\ state' = res.s
         /\ pc' = IF res.exc THEN "raised" ELSE "agent"
         /\ llm' = res.llm
    /\ agent_i' = 1
    /\ started' = TRUE
    /\ GraphFrame

\* node agents[i], edge agents[i] -> agents[i + 1] or "summarizer"; the turn is
\* drawn from T
GraphAgentOf(T) ==
    /\ pc = "agent"
    /\ \E p \in T :
         \E r \in GraphDraws(state, state.agents[agent_i], p) :
           LET res == agent_step_graph(state, state.agents[agent_i], p, r) IN
           /\ state' = res.s
           /\ llm' = res.llm
           /\ IF res.exc THEN pc' = "raised" /\ agent_i' = agent_i
              ELSE IF agent_i + 1 <= Len(state.agents)
              THEN pc' = "agent" /\ agent_i' = agent_i + 1
              ELSE pc' = "summarizer" /\ agent_i' = agent_i
    /\ UNCHANGED started
    /\ GraphFrame

GraphAgent == GraphAgentOf(GraphTurns)

\* node "summarizer"
GraphSummarizer ==
    /\ pc = "summarizer"
    /\ \E llm_ok \in BOOLEAN :
         LET res == summarizer_step(state, llm_ok) IN
         /\ state' = res.s
         /\ pc' = IF res.exc THEN "raised" ELSE "route"
         /\ llm' = res.llm
    /\ UNCHANGED <<agent_i, started>>
    /\ GraphFrame

\* the conditional edge after "summarizer"
GraphRoute ==
    /\ pc = "route"
    /\ pc' = IF route_after_summary(state) = "END" THEN "invoked" ELSE "chair"
    /\ llm' = FALSE
    /\ UNCHANGED <<state, agent_i, started>>
    /\ GraphFrame

\* run_meeting after meeting_model.invoke returned: the check of the while loop,
\* then build_options_summary and summarize_meeting, and the return
GraphReturn ==
    /\ pc = "invoked"
    /\ IF Terminal(state)
       THEN \E llm_ok \in BOOLEAN :
              /\ pc' = IF llm_ok THEN "done" ELSE "raised"
              /\ llm' = TRUE
       ELSE /\ pc' = "chair"
            /\ llm' = FALSE
    /\ UNCHANGED <<state, agent_i, started>>
    /\ GraphFrame

NextGraph ==
    \/ GraphChair
    \/ GraphAgent
    \/ GraphSummarizer
    \/ GraphRoute
    \/ GraphReturn

SpecGraph == InitGraph /\ [][NextGraph]_vars

\* ------------------------------------------------------------ supplied stances
\* SpecSupplied: run_meeting_streaming called with a roster of four or of three
\* agents and a stances argument, the turns proposing no option and updating no
\* stance.

DEFAULT_AGENTS == <<"Alice", "Bob", "Charlie", "Dana">>

SUPPLIED_ROSTERS == {DEFAULT_AGENTS, <<"Alice", "Bob", "Charlie">>}

\* The stances argument of the call: every agent "for".
SUPPLIED_STANCES == [a \in SeqToSet(DEFAULT_AGENTS) |-> "for"]

\* "Ensure every agent has defaults": the loop ends each pass with
\* stances[agent] = "neutral", whatever the argument held for the agent
default_stances(agents, stances) ==
    [a \in (DOMAIN stances) \cup SeqToSet(agents) |->
        IF a \in SeqToSet(agents) THEN "neutral" ELSE stances[a]]

\* initial_state of a call with a stances argument: of the two "stances" keys of
\* the dict display the second, the argument after the loop, is the one kept
initial_state_for(agents, stances) ==
    [initial_state(agents) EXCEPT !.stances = default_stances(agents, stances)]

SuppliedTurns ==
    {BaseTurn, [BaseTurn EXCEPT !.reaction = DECLINE, !.responder = "Bob"]}

InitSupplied ==
    \E agents \in SUPPLIED_ROSTERS :
        InitWith(initial_state_for(agents, [a \in SeqToSet(agents) |-> SUPPLIED_STANCES[a]]))

SuppliedAgentTurn == AgentTurnOf(SuppliedTurns, BOOLEAN, MaxTurn)

NextSupplied ==
    \/ Cancel
    \/ WhileEnter
    \/ WhileExit
    \/ RoundCancelled
    \/ ChairTurn
    \/ AgentCancelled
    \/ SuppliedAgentTurn
    \/ RoundBreak
    \/ SummarizerTurn
    \/ BuildSummaries
    \/ YieldFinal

SpecSupplied == InitSupplied /\ [][NextSupplied]_vars

\* ------------------------------------------------------------ interruptions
\* SpecInterrupt: run_meeting_streaming on a roster of three, so that a third agent
\* can cut in, the turns updating a stance or ending the stage with a next_stage.

INTERRUPT_ROSTER == <<"Alice", "Bob", "Charlie">>

InterruptTurns ==
    {BaseTurn}
    \cup {[BaseTurn EXCEPT !.stance_updates = ("Bob" :> "for")]}
    \cup {[BaseTurn EXCEPT !.end_stage = TRUE, !.next_stage = n] : n \in {"clarify", "decide"}}

InitInterrupt == InitWith(initial_state(INTERRUPT_ROSTER))

InterruptAgentTurn == AgentTurnOf(InterruptTurns, {FALSE}, MaxTurn)

NextInterrupt ==
    \/ Cancel
    \/ WhileEnter
    \/ WhileExit
    \/ RoundCancelled
    \/ ChairTurn
    \/ AgentCancelled
    \/ InterruptAgentTurn
    \/ RoundBreak
    \/ SummarizerTurn
    \/ BuildSummaries
    \/ YieldFinal

SpecInterrupt == InitInterrupt /\ [][NextInterrupt]_vars

\* ------------------------------------------------------------ long runs
\* SpecLong: run_meeting_streaming on the roster of Spec, explored to the depth where
\* the turn counters reach their thresholds.  No turn sets end_stage; a turn asks
\* the question of the base turn or one not asked before in the stage, and may
\* update one stance.  The persuasion samples all fail.

\* The runs of SpecLong are explored up to this many turns.
MaxLongTurn == 40

\* Questions that differ from each other and from the question of the base turn.
FRESH_QUESTIONS == <<"f0", "f1", "f2", "f3", "f4", "f5", "f6", "f7", "f8", "f9", "f10", "f11">>

\* A question that no turn has asked in the current stage: stage_turns grows with
\* every step of the stage.
FreshQuestion(s) == FRESH_QUESTIONS[(s.stage_turns % Len(FRESH_QUESTIONS)) + 1]

LongTurns(s) ==
    {BaseTurn}
    \cup {[BaseTurn EXCEPT !.question = FreshQuestion(s)]}
    \cup {[BaseTurn EXCEPT !.question = FreshQuestion(s), !.stance_updates = ("Bob" :> "for")]}

LongChairTurn == ChairTurnUpTo(MaxLongTurn)

LongAgentTurn == AgentTurnOf(LongTurns(state), {FALSE}, MaxLongTurn)

LongSummarizerTurn == SummarizerTurnUpTo(MaxLongTurn)

NextLong ==
    \/ Cancel
    \/ WhileEnter
    \/ WhileExit
    \/ RoundCancelled
    \/ LongChairTurn
    \/ AgentCancelled
    \/ LongAgentTurn
    \/ RoundBreak
    \/ LongSummarizerTurn
    \/ BuildSummaries
    \/ YieldFinal

SpecLong == Init /\ [][NextLong]_vars

\* ------------------------------------------------------------ registry calls
\* SpecRegistry: the functions of the option registry called one after another on
\* the MeetingState of a new meeting, as agent_step calls them.

REGISTRY_ROSTER == <<"Alice", "Dana">>

\* The registry is explored up to this many calls.
MaxOps == 3

\* "hire two engineers"
HIRE_PLAIN ==
    <<"h", "i", "r", "e", " ", "t", "w", "o", " ",
      "e", "n", "g", "i", "n", "e", "e", "r", "s">>

\* "Hire   Two Engineers"
HIRE_SPACED ==
    <<"H", "i", "r", "e", " ", " ", " ", "T", "w", "o", " ",
      "E", "n", "g", "i", "n", "e", "e", "r", "s">>

\* "Hire   Two Engineers."
HIRE_PERIOD == Append(HIRE_SPACED, ".")

REGISTRY_TEXTS == {HIRE_PLAIN, HIRE_SPACED, HIRE_PERIOD}

\* The option references of the votes: none, "O1", and "O9", which no registry of
\* the runs explored holds.
REGISTRY_REFS == {0, 1, 9}

InitRegistry == InitWith(initial_state(REGISTRY_ROSTER))

\* The part of the variables a call of the registry does not touch.
RegistryFrame ==
    UNCHANGED <<pc, agent_i, previous_dialogue_len, events, cancel_flag, cancel_seen, llm,
                started, cancel_early, interrupted, sanitized, peer, web>>

\* register_option(state, text, proposer)
Register ==
    /\ op.n < MaxOps
    /\ \E text \in REGISTRY_TEXTS, proposer \in SeqToSet(state.agents) :
         \E ok \in IF FindDuplicate(state, text) = 0 THEN BOOLEAN ELSE {TRUE} :
           LET res == register_option(Begin(state), text, proposer, ok) IN
           /\ state' = res.s
           /\ op' = [n |-> op.n + 1, kind |-> "register", text |-> text, who |-> proposer,
                     ref |-> 0, vote |-> "", oid |-> res.oid, exc |-> res.exc,
                     again |-> op.kind = "register" /\ op.text = text /\ op.who = proposer]
    /\ RegistryFrame

\* vote_option(state, voter, option_ref, vote, comment)
Vote ==
    /\ op.n < MaxOps
    /\ \E voter \in SeqToSet(state.agents), ref \in REGISTRY_REFS, vote \in VOTES :
         /\ state' = vote_option(Begin(state), voter, ref, vote)
         /\ op' = [n |-> op.n + 1, kind |-> "vote", text |-> <<>>, who |-> voter,
                   ref |-> ref, vote |-> vote, oid |-> resolve_option_ref(state, ref),
                   exc |-> FALSE,
                   again |-> op.kind = "vote" /\ op.who = voter /\ op.ref = ref
                             /\ op.vote = vote]
    /\ RegistryFrame

\* auto_vote_for_agent(state, agent)
AutoVote ==
    /\ op.n < MaxOps
    /\ \E agent \in SeqToSet(state.agents), vote \in VOTES :
         /\ state' = auto_vote_for_agent(Begin(state), agent, vote)
         /\ op' = [n |-> op.n + 1, kind |-> "auto_vote", text |-> <<>>, who |-> agent,
                   ref |-> 0, vote |-> vote, oid |-> resolve_option_ref(state, 0),
                   exc |-> FALSE, again |-> FALSE]
    /\ RegistryFrame

NextRegistry ==
    \/ Register
    \/ Vote
    \/ AutoVote

SpecRegistry == InitRegistry /\ [][NextRegistry]_vars

\* ------------------------------------------------------------ names
\* SpecNames: the graph orchestrator on a roster without "Alice", the planner
\* returning askers and responders that are unknown names, group words, or known
\* names in another spelling.

NAME_ROSTER == <<"Bob", "Dana">>

RETURNED_NAMES == {"Everyone", "Zed"}

NameTurns ==
    {BaseTurn}
    \cup {[BaseTurn EXCEPT !.responder = "Everyone", !.option_proposal = <<"x">>]}
    \cup {[BaseTurn EXCEPT !.responder = "Zed", !.option_vote = "oppose"]}
    \cup {[BaseTurn EXCEPT !.asker = n] : n \in RETURNED_NAMES}

InitNames == InitGraphWith(initial_state(NAME_ROSTER))

NamesAgent == GraphAgentOf(NameTurns)

NextNames ==
    \/ GraphChair
    \/ NamesAgent
    \/ GraphSummarizer
    \/ GraphRoute
    \/ GraphReturn

SpecNames == InitNames /\ [][NextNames]_vars

\* ------------------------------------------------------------ sanitation calls
\* SpecSanitize: sanitize_turn called, as agent_step calls it, on the MeetingState of
\* a new meeting and on turns whose names, reaction, next_stage and message the
\* language model returned in any form.

SANITIZE_ROSTERS == {<<"Alice", "Bob">>, <<"Bob", "Dana">>, <<"Alice", "Bob", "Charlie">>}

\* The names a returned turn carries: none, a name of a roster in another spelling,
\* a group word, an unknown name, a name as written in a roster.
SANITIZE_NAMES == {"", "ALICE", " bob ", "Everyone", "Zed", "Dana"}

\* "Agreed"
AGREED == <<"A", "g", "r", "e", "e", "d">>

\* " Nope"
NOPE == <<" ", "N", "o", "p", "e">>

\* "maybe"
MAYBE == <<"m", "a", "y", "b", "e">>

\* The reaction, next_stage and message a returned turn carries: none of them; a
\* valid reaction and a stage; reactions in other words, a word that is no stage, an
\* empty message.
SANITIZE_REST ==
    {<<<<>>, "", "">>,
     <<REJECT_PROPOSE, "decide", "m">>,
     <<AGREED, "wrapup", "m">>,
     <<NOPE, "", "m">>,
     <<MAYBE, "decide", "">>}

\* The turns sanitize_turn is called on.
SanitizeTurns ==
    {[BaseTurn EXCEPT !.asker = a, !.responder = b, !.reaction = rest[1],
                      !.next_stage = rest[2], !.message = rest[3]] :
        a \in SANITIZE_NAMES, b \in SANITIZE_NAMES, rest \in SANITIZE_REST}

\* sanitize_turn is explored up to this many calls.
MaxCalls == 1

InitSanitize == \E agents \in SANITIZE_ROSTERS : InitWith(initial_state(agents))

\* parsed = sanitize_turn(parsed, state, agent)
Sanitize ==
    /\ sanitized.n < MaxCalls
    /\ \E caller \in SeqToSet(state.agents), p \in SanitizeTurns :
         \E alt \in AlternatePicks(p, state, caller) :
           sanitized' = [n |-> sanitized.n + 1, caller |-> caller, raw |-> p,
                         turn |-> sanitize_turn(p, state, caller, alt[1], alt[2])]
    /\ UNCHANGED <<state, pc, agent_i, previous_dialogue_len, events, cancel_flag, cancel_seen,
                   llm, started, cancel_early, interrupted, op, peer, web>>

NextSanitize ==
    \/ Sanitize

SpecSanitize == InitSanitize /\ [][NextSanitize]_vars

\* ------------------------------------------------------------ stage words
\* SpecStages: run_meeting_streaming on the roster of Spec, the turns that end the
\* stage carrying no next_stage or a word that is no stage.  The persuasion samples
\* all fail.

StageTurns ==
    {BaseTurn}
    \cup {[BaseTurn EXCEPT !.stance_updates = ("Bob" :> "for")]}
    \cup {[BaseTurn EXCEPT !.end_stage = TRUE, !.next_stage = n] : n \in {"", "wrapup"}}

StagesAgentTurn == AgentTurnOf(StageTurns, {FALSE}, MaxTurn)

NextStages ==
    \/ Cancel
    \/ WhileEnter
    \/ WhileExit
    \/ RoundCancelled
    \/ ChairTurn
    \/ AgentCancelled
    \/ StagesAgentTurn
    \/ RoundBreak
    \/ SummarizerTurn
    \/ BuildSummaries
    \/ YieldFinal

SpecStages == Init /\ [][NextStages]_vars

\* ------------------------------------------------------------ best option
\* SpecBest: best_option called on the registries a meeting of two agents can hold:
\* every option has a first_turn no earlier than that of the option registered
\* before it, and a ballot of each agent (support, oppose, abstain or none), one of
\* them at least cast, since the proposer of an option never leaves its vote sets.

\* The registries are explored up to this many options.
MaxOptions == 3

\* The registries are explored up to this first_turn.
MaxFirstTurn == 1

OPTION_TEXTS == <<HIRE_PLAIN, <<"x">>, <<"y">>, <<"z">>>>

BALLOTS == {"support", "oppose", "abstain", "none"}

\* The ballots of the agents on one option.
BallotsOn(agents) ==
    {f \in [SeqToSet(agents) -> BALLOTS] : \E a \in SeqToSet(agents) : f[a] # "none"}

\* An option with ballots f, registered in turn ft.
OptionOf(f, ft) ==
    [text        |-> <<"x">>,
     proposer    |-> CHOOSE a \in DOMAIN f : f[a] # "none",
     supporters  |-> {a \in DOMAIN f : f[a] = "support"},
     opponents   |-> {a \in DOMAIN f : f[a] = "oppose"},
     abstainers  |-> {a \in DOMAIN f : f[a] = "abstain"},
     first_stage |-> "options",
     first_turn  |-> ft,
     attributes  |-> "evaluated"]

\* The MeetingState of a meeting of agents whose registry holds n options, option i
\* with ballots fs[i] and first_turn fts[i].
RegistryState(agents, n, fs, fts) ==
    [initial_state(agents) EXCEPT
        !.stage = "evaluate",
        !.turn = IF n = 0 THEN 0 ELSE fts[n],
        !.option_counter = n,
        !.metrics.options_proposed = n,
        !.options = [i \in 1..n |-> [OptionOf(fs[i], fts[i]) EXCEPT !.text = OPTION_TEXTS[i]]]]

InitBest ==
    \E n \in 0..MaxOptions :
        \E fs \in [1..n -> BallotsOn(REGISTRY_ROSTER)], fts \in [1..n -> 0..MaxFirstTurn] :
            /\ \A i \in 1..n : \A j \in 1..n : i <= j => fts[i] <= fts[j]
            /\ InitWith(RegistryState(REGISTRY_ROSTER, n, fs, fts))

\* oid = best_option(state)
Best ==
    /\ op.n = 0
    /\ op' = [NoOp EXCEPT !.n = 1, !.kind = "best", !.oid = best_option(state)]
    /\ UNCHANGED state
    /\ RegistryFrame

NextBest ==
    \/ Best

SpecBest == InitBest /\ [][NextBest]_vars

\* ------------------------------------------------------------ persuasion
\* SpecPersuade: maybe_shift of agent_step applied to a meeting of three agents in
\* stage discuss whose stances are any of the 27 assignments.  Each step is one
\* persuasion attempt of a speaker on a listener, the sample succeeding or failing;
\* op records the attempt.

PERSUADE_ROSTER == <<"Alice", "Bob", "Cara">>

\* At most this many persuasion attempts are made.
MaxShifts == 2

InitPersuade ==
    \E st \in [SeqToSet(PERSUADE_ROSTER) -> StanceSet] :
        InitWith([initial_state(PERSUADE_ROSTER) EXCEPT !.stage = "discuss", !.stances = st])

\* sp_target = state["stances"].get(speaker, "neutral"); maybe_shift(listener)
MaybeShift ==
    /\ op.n < MaxShifts
    /\ \E listener \in SeqToSet(PERSUADE_ROSTER), speaker \in SeqToSet(PERSUADE_ROSTER),
          sway \in BOOLEAN :
          /\ state' = maybe_shift(Begin(state), listener, speaker,
                                  state.stances[speaker], state.stage, sway)
          /\ op' = [n |-> op.n + 1, kind |-> "shift", listener |-> listener,
                    speaker |-> speaker, sway |-> sway]
    /\ RegistryFrame

NextPersuade ==
    \/ MaybeShift

SpecPersuade == InitPersuade /\ [][NextPersuade]_vars

\* ------------------------------------------------------------ stance updates
\* SpecStances: run_meeting_streaming on the roster of Spec with the flag never set.
\* A turn carries no stance update, or one for an agent, or one for a name outside
\* the roster, or one whose value is not a stance, or it ends the stage.  The
\* persuasion samples all fail.

\* A name no agent of ROSTER has.
OUTSIDER == "Zed"

StanceTurns ==
    {BaseTurn}
    \cup {[BaseTurn EXCEPT !.stance_updates = ("Bob" :> v)] : v \in {"for", "against", "maybe"}}
    \cup {[BaseTurn EXCEPT !.stance_updates = (OUTSIDER :> "for")]}
    \cup {[BaseTurn EXCEPT !.end_stage = TRUE, !.next_stage = n] : n \in {"decide", "confirm"}}

StancesAgentTurn == AgentTurnOf(StanceTurns, {FALSE}, MaxTurn)

NextStances ==
    \/ WhileEnter
    \/ ChairTurn
    \/ StancesAgentTurn
    \/ RoundBreak
    \/ SummarizerTurn
    \/ BuildSummaries
    \/ YieldFinal

SpecStances == Init /\ [][NextStances]_vars

\* ------------------------------------------------------------ parallel runs
\* SpecParallel: two calls of run_meeting_streaming in one process, on the roster
\* of Spec, neither flag ever set.  The caller passes each call a stances dictionary
\* of its own, or passes both the same one.  `stances = stances or {}` keeps a
\* non-empty argument as it is and the initial state holds it under "stances", so
\* with one dictionary passed twice the two states refer to one object: it is kept
\* in state.stances, and peer.aliased says that the second run's "stances" is that
\* object.  The first run is the one of Spec; peer is the second: whether it has
\* started, where its loop stands (pc, agent_i) and its MeetingState (s).  The
\* persuasion samples all fail.

\* The stances dictionary of the caller: every agent "for".
PARALLEL_STANCES == [a \in SeqToSet(ROSTER) |-> "for"]

\* The second run is explored up to this many turns.
MaxPeerTurn == 2

ParallelTurns ==
    {BaseTurn, [BaseTurn EXCEPT !.stance_updates = ("Bob" :> "for")]}

\* The MeetingState of the second run, its "stances" read through the reference.
PeerStateOf(p, s) ==
    IF p.aliased THEN [p.s EXCEPT !.stances = s.stances] ELSE p.s

InitParallel ==
    /\ InitRun(initial_state_for(ROSTER, PARALLEL_STANCES))
    /\ \E aliased \in BOOLEAN :
          peer = [aliased |-> aliased, started |-> FALSE, pc |-> "loop", agent_i |-> 1,
                  s |-> <<>>]
    /\ active_simulations = <<>>
    /\ streams = <<>>
    /\ meeting_status = <<>>

\* What no step of the second run writes but state.
PeerFrame ==
    UNCHANGED <<pc, agent_i, previous_dialogue_len, events, cancel_flag, cancel_seen, llm,
                started, cancel_early, interrupted, op, sanitized, web>>

\* A write of the second run to its state: a write to "stances" is a write to the
\* object both states hold when the dictionary is shared.
PeerWrites(s2) ==
    state' = IF peer.aliased THEN [state EXCEPT !.stances = s2.stances] ELSE state

\* The second call of run_meeting_streaming up to the while loop: "Ensure every
\* agent has defaults" writes stances[agent] = "neutral" into the argument.
PeerStart ==
    /\ ~peer.started
    /\ LET arg == IF peer.aliased THEN state.stances ELSE PARALLEL_STANCES
           s2  == initial_state_for(ROSTER, arg)
       IN  /\ peer' = [peer EXCEPT !.started = TRUE, !.s = s2]
           /\ PeerWrites(s2)
    /\ PeerFrame

\* The second run: "Run chair step", "Check if meeting should end"
PeerChairTurn ==
    /\ peer.started
    /\ peer.pc = "loop"
    /\ PeerStateOf(peer, state).turn < MaxPeerTurn
    /\ \E llm_ok \in BOOLEAN :
         LET res == chair_step(PeerStateOf(peer, state), llm_ok) IN
         /\ peer' = [peer EXCEPT !.s = res.s,
                                 !.pc = IF res.exc THEN "raised"
                                        ELSE IF Terminal(res.s) THEN "build" ELSE "agents",
                                 !.agent_i = 1]
         /\ PeerWrites(res.s)
    /\ PeerFrame

\* The second run: for agent in agents: agent_step, "Check if meeting should end"
PeerAgentTurn ==
    /\ peer.started
    /\ peer.pc = "agents"
    /\ PeerStateOf(peer, state).turn < MaxPeerTurn
    /\ LET s2    == PeerStateOf(peer, state)
           agent == s2.agents[peer.agent_i]
       IN  \E p \in ParallelTurns :
             \E r \in {d \in Draws([s2 EXCEPT !.stage_turns = @ + 1], agent, p) :
                          ~d.sway_asker /\ ~d.sway_int} :
               LET res == agent_step(s2, agent, p, r) IN
               /\ peer' = [peer EXCEPT
                             !.s = res.s,
                             !.pc = IF res.exc THEN "raised"
                                    ELSE IF Terminal(res.s) THEN "build"
                                    ELSE IF peer.agent_i = Len(s2.agents) THEN "after_agents"
                                    ELSE "agents",
                             !.agent_i = IF res.exc \/ Terminal(res.s)
                                            \/ peer.agent_i = Len(s2.agents)
                                         THEN @ ELSE @ + 1]
               /\ PeerWrites(res.s)
    /\ PeerFrame

\* The second run: "Run summarizer step", "Check if meeting should end after summarizer"
PeerSummarizerTurn ==
    /\ peer.started
    /\ peer.pc = "after_agents"
    /\ \E llm_ok \in BOOLEAN :
         LET res == summarizer_step(PeerStateOf(peer, state), llm_ok) IN
         /\ peer' = [peer EXCEPT !.s = res.s,
                                 !.pc = IF res.exc THEN "raised"
                                        ELSE IF Terminal(res.s) THEN "build" ELSE "loop"]
         /\ PeerWrites(res.s)
    /\ PeerFrame

ParallelAgentTurn == AgentTurnOf(ParallelTurns, {FALSE}, MaxTurn)

NextParallel ==
    \/ WhileEnter
    \/ ChairTurn
    \/ ParallelAgentTurn
    \/ RoundBreak
    \/ SummarizerTurn
    \/ BuildSummaries
    \/ YieldFinal
    \/ PeerStart
    \/ PeerChairTurn
    \/ PeerAgentTurn
    \/ PeerSummarizerTurn

SpecParallel == InitParallel /\ [][NextParallel]_vars

\* ------------------------------------------------------------ API layer
\* SpecStreams: the requests GET /{meeting_id}/stream and POST /{meeting_id}/stop of
\* the owner of two meetings.  A stream request r is one run of event_generator:
\* streams[r] holds its meeting id, where it stands (pc), its cancel_flag
\* ("cancelled"), the number of dialogue lines it has passed on (lines) and, as
\* history, whether a stop request for its meeting was handled while its simulation
\* was running (stopped).  active_simulations maps a meeting id to the request whose
\* cancel_flag the table holds.  The simulation of a request is seen through the
\* events it yields; its calls of the language model return.  op records the request
\* or step handled last.

MEETINGS == {1, 2}

\* At most this many stream requests are made.
MaxStreams == 3

\* A stream passes on at most this many dialogue lines.
MaxLines == 1

InitStreams ==
    /\ InitRun(initial_state(ROSTER))
    /\ peer = NoPeer
    /\ active_simulations = <<>>
    /\ streams = <<>>
    /\ meeting_status = [m \in MEETINGS |-> "pending"]

\* What no request of the API writes.
StreamsFrame ==
    UNCHANGED <<state, pc, agent_i, previous_dialogue_len, events, cancel_flag, cancel_seen,
                llm, started, cancel_early, interrupted, sanitized, peer>>

\* op after a request or step of kind `kind` for meeting m, of stream request r
Handled(kind, m, r) ==
    op' = [kind |-> kind, meeting |-> m, stream |-> r]

\* del stream_meeting.active_simulations[meeting_id], if the key is there
CleanUp(m) ==
    active_simulations' = [k \in (DOMAIN active_simulations) \ {m} |-> active_simulations[k]]

\* stream_meeting and event_generator up to the call of run_meeting_streaming
StreamStart ==
    /\ Len(streams) < MaxStreams
    /\ \E m \in MEETINGS :
         LET r == Len(streams) + 1 IN
         /\ meeting_status' = [meeting_status EXCEPT ![m] = "running"]
         /\ active_simulations' = [k \in (DOMAIN active_simulations) \cup {m} |->
                                      IF k = m THEN r ELSE active_simulations[k]]
         /\ streams' = Append(streams, [meeting |-> m, pc |-> "streaming", cancelled |-> FALSE,
                                        lines |-> 0, stopped |-> FALSE])
         /\ Handled("stream", m, r)
    /\ StreamsFrame

\* for event in run_meeting_streaming(...): a dialogue event, the flag clear
StreamLine ==
    /\ \E r \in DOMAIN streams :
         /\ streams[r].pc = "streaming"
         /\ ~streams[r].cancelled
         /\ streams[r].lines < MaxLines
         /\ streams' = [streams EXCEPT ![r].lines = @ + 1]
         /\ Handled("line", streams[r].meeting, r)
    /\ UNCHANGED <<active_simulations, meeting_status>>
    /\ StreamsFrame

\* for event in run_meeting_streaming(...): an event, the flag set: break, with no
\* final_result; "Update meeting in database", "Clean up"
StreamBreak ==
    /\ \E r \in DOMAIN streams :
         LET m == streams[r].meeting IN
         /\ streams[r].pc = "streaming"
         /\ streams[r].cancelled
         /\ streams' = [streams EXCEPT ![r].pc = "ended"]
         /\ meeting_status' = [meeting_status EXCEPT ![m] = "cancelled"]
         /\ CleanUp(m)
         /\ Handled("end", m, r)
    /\ StreamsFrame

\* the client disconnects: the except branch sets the flag and breaks; "Update
\* meeting in database", "Clean up"
StreamDisconnect ==
    /\ \E r \in DOMAIN streams :
         LET m == streams[r].meeting IN
         /\ streams[r].pc = "streaming"
         /\ streams' = [streams EXCEPT ![r].pc = "ended", ![r].cancelled = TRUE]
         /\ meeting_status' = [meeting_status EXCEPT ![m] = "cancelled"]
         /\ CleanUp(m)
         /\ Handled("end", m, r)
    /\ StreamsFrame

\* for event in run_meeting_streaming(...): the final event, the flag clear:
\* final_result = event, whose "cancelled" is False
StreamFinal ==
    /\ \E r \in DOMAIN streams :
         /\ streams[r].pc = "streaming"
         /\ ~streams[r].cancelled
         /\ streams' = [streams EXCEPT ![r].pc = "final"]
         /\ Handled("final", streams[r].meeting, r)
    /\ UNCHANGED <<active_simulations, meeting_status>>
    /\ StreamsFrame

\* the generator is exhausted; "Update meeting in database" with a final_result,
\* "Clean up"
StreamEnd ==
    /\ \E r \in DOMAIN streams :
         LET m == streams[r].meeting IN
         /\ streams[r].pc = "final"
         /\ streams' = [streams EXCEPT ![r].pc = "ended"]
         /\ meeting_status' = [meeting_status EXCEPT ![m] = "completed"]
         /\ CleanUp(m)
         /\ Handled("end", m, r)
    /\ StreamsFrame

\* stop_meeting
StopMeeting ==
    /\ \E m \in MEETINGS :
         /\ IF m \in DOMAIN active_simulations
            THEN /\ streams' = [r \in DOMAIN streams |->
                                  [streams[r] EXCEPT
                                     !.cancelled = @ \/ r = active_simulations[m],
                                     !.stopped = @ \/ (streams[r].meeting = m
                                                       /\ streams[r].pc = "streaming")]]
                 /\ UNCHANGED meeting_status
            ELSE /\ meeting_status' = [meeting_status EXCEPT ![m] = "cancelled"]
                 /\ streams' = [r \in DOMAIN streams |->
                                  [streams[r] EXCEPT
                                     !.stopped = @ \/ (streams[r].meeting = m
                                                       /\ streams[r].pc = "streaming")]]
         /\ Handled("stop", m, 0)
    /\ UNCHANGED active_simulations
    /\ StreamsFrame

NextStreams ==
    \/ StreamStart
    \/ StreamLine
    \/ StreamBreak
    \/ StreamDisconnect
    \/ StreamFinal
    \/ StreamEnd
    \/ StopMeeting

SpecStreams == InitStreams /\ [][NextStreams]_vars

\* ------------------------------------------------------------ time limit
\* SpecTimeUp: run_meeting_streaming on the roster of Spec with the flag never set,
\* explored past the turn limit of agent_step.  A turn asks a question not asked
\* before in the stage; it updates one stance, or ends the stage with no next_stage,
\* which re-enters the stage and lets the run last.  The persuasion samples all fail.

\* The runs of SpecTimeUp are explored up to this many turns.
MaxTimeUpTurn == 42

TimeUpTurns(s) ==
    {[BaseTurn EXCEPT !.question = FreshQuestion(s), !.stance_updates = ("Bob" :> "for")],
     [BaseTurn EXCEPT !.question = FreshQuestion(s), !.end_stage = TRUE]}

TimeUpChairTurn == ChairTurnUpTo(MaxTimeUpTurn)

TimeUpAgentTurn == AgentTurnOf(TimeUpTurns(state), {FALSE}, MaxTimeUpTurn)

TimeUpSummarizerTurn == SummarizerTurnUpTo(MaxTimeUpTurn)

NextTimeUp ==
    \/ WhileEnter
    \/ TimeUpChairTurn
    \/ TimeUpAgentTurn
    \/ RoundBreak
    \/ TimeUpSummarizerTurn
    \/ BuildSummaries
    \/ YieldFinal

SpecTimeUp == Init /\ [][NextTimeUp]_vars

\* ------------------------------------------------------------ properties

\* The run has ended: the generator returned or raised.
Ended == pc \in {"done", "raised"}

\* The dialogue events yielded so far, in order.
DialogueEvents == SelectSeq(events, LAMBDA e : e.type = "dialogue")

\* The fields of a MeetingState: the record without the model's note of the lines
\* the last handler appended.
Fields(s) == [s EXCEPT !.appended = <<>>]

\* The final events yielded so far, in order.
FinalEvents == SelectSeq(events, LAMBDA e : e.type = "final")

\* C1: for every registered option the sets supporters, opponents and abstainers
\* are pairwise disjoint in every reachable state.
C1_VoteSetsDisjoint ==
    \A o \in DOMAIN state.options :
        LET info == state.options[o] IN
        /\ info.supporters \cap info.opponents = {}
        /\ info.supporters \cap info.abstainers = {}
        /\ info.opponents \cap info.abstainers = {}

\* C2: no step of a run sets the stage to one that is earlier in STAGES than the
\* current stage.
C2_StageNeverRegresses ==
    [][StageIndex(state'.stage) >= StageIndex(state.stage)]_vars

\* C3: when the final event has been emitted, the decision is non-null if and only
\* if the stage is confirm.
C3_DecisionIffConfirmAtFinal ==
    pc = "done" => ((state.decision # None) <=> (state.stage = "confirm"))

\* C4: a run that has read the cancellation flag as set at one of its checkpoints
\* ends with decision "Meeting cancelled by user" and stage confirm, and its final
\* event carries cancelled = true and that decision.
C4_CancelEndsCancelled ==
    (pc = "done" /\ cancel_seen) =>
        /\ state.decision = CANCELLED_DECISION
        /\ state.stage = "confirm"
        /\ events[Len(events)].cancelled
        /\ events[Len(events)].decision = CANCELLED_DECISION

\* C5: a run whose flag was set before the first chair_step ends with exactly one
\* event emitted, a final event with cancelled = true, and no dialogue event.
C5_EarlyCancelOneFinalNoDialogue ==
    (Ended /\ cancel_early) =>
        /\ Len(events) = 1
        /\ events[1].type = "final"
        /\ events[1].cancelled

\* C6: once the cancellation flag is set, no step of the run calls the language
\* model: neither a chair, agent or summarizer step nor summarize_meeting.
C6_NoLLMCallAfterCancel ==
    [][cancel_flag => ~llm']_vars

\* C7: a run that has ended has emitted exactly one final event, and it is the last
\* event of the stream.
C7_ExactlyOneFinalLast ==
    Ended =>
        /\ Len(FinalEvents) = 1
        /\ events[Len(events)].type = "final"

\* C8: a run whose flag is never set and that has ended has reached the confirm
\* stage and emitted its final event.
C8_EndsInConfirm ==
    (pc = "done" /\ ~cancel_flag) => state.stage = "confirm"

\* C9: the dialogue events emitted so far are the first lines appended to
\* state.dialogue, each once and in append order, and once the final event is
\* emitted every line of state.dialogue has been emitted.
C9_EventsMatchAppends ==
    /\ Len(DialogueEvents) <= Len(state.dialogue)
    /\ \A i \in DOMAIN DialogueEvents : DialogueEvents[i].line = state.dialogue[i]
    /\ FinalEvents # <<>> => Len(DialogueEvents) = Len(state.dialogue)

\* A run that emitted its lines in several batches has emitted its final event.
C9_Witness ==
    /\ pc = "done"
    /\ Len(state.dialogue) >= 6
    /\ Len(events) = Len(state.dialogue) + 1

\* C10: once a decision is recorded or the stage is confirm, no step of the
\* orchestrator changes the MeetingState again.
C10_FrozenOnceTerminal ==
    [][Terminal(state) => Fields(state') = Fields(state)]_vars

\* The agents that have voted on option o of s.
Voters(s, o) == s.options[o].supporters \cup s.options[o].opponents \cup s.options[o].abstainers

\* C11: for every registered option, every member of supporters, opponents and
\* abstainers is an agent of the roster, whatever asker and responder names the
\* planner returns.
C11_VotersInRoster ==
    \A o \in DOMAIN state.options : Voters(state, o) \subseteq SeqToSet(state.agents)

\* The handler that ran last was an agent step that went through its auto-vote pass
\* in evaluate or decide: it wrote its three lines with that tag, the registry is
\* not empty and register_option did not raise on the way.
AutoVotePassRan ==
    /\ pc # "raised"
    /\ OptionIds(state) # {}
    /\ \E i \in DOMAIN state.appended :
          /\ state.appended[i].tag \in {"evaluate", "decide"}
          /\ state.appended[i].text = "reacts"

\* The number of vote sets of option o of s that agent a is in.
SetsHolding(s, o, a) ==
    (IF a \in s.options[o].supporters THEN 1 ELSE 0)
    + (IF a \in s.options[o].opponents THEN 1 ELSE 0)
    + (IF a \in s.options[o].abstainers THEN 1 ELSE 0)

\* C12: after the auto-vote pass of an agent step in evaluate or decide, every agent
\* of the roster is in exactly one of the three vote sets of the most recent option.
C12_EveryAgentVotedOnce ==
    AutoVotePassRan =>
        \A a \in SeqToSet(state.agents) :
            SetsHolding(state, resolve_option_ref(state, 0), a) = 1

\* The three vote sets of option o of s.
VoteSets(s, o) == <<s.options[o].supporters, s.options[o].opponents, s.options[o].abstainers>>

\* C13: a call of vote_option that repeats the call before it (the same voter, the
\* same option reference, the same vote) leaves the three vote sets of every option
\* as the first call left them.
C13_RevoteIdempotent ==
    [][(op'.kind = "vote" /\ op'.again) =>
          /\ DOMAIN state'.options = DOMAIN state.options
          /\ \A o \in DOMAIN state.options : VoteSets(state', o) = VoteSets(state, o)]_vars

\* A vote on an existing option has just been cast a second time, and the voter had
\* been in another set of that option before the first of the two.
C13_Witness ==
    /\ op.kind = "vote" /\ op.again /\ op.n = 3
    /\ op.oid \in DOMAIN state.options
    /\ op.vote = "oppose"
    /\ VoteSets(state, op.oid) = <<{}, {"Alice"}, {}>>

\* The "(duplicate)" notices among lines.
DuplicateNotices(lines) ==
    {i \in DOMAIN lines :
        lines[i].tag \in StageSet /\ lines[i].text = "(duplicate) Referencing existing"}

\* C14: register_option on a text that equals the text of an existing option after
\* lower-casing and whitespace collapsing leaves the set of options and the option
\* counter unchanged, returns the id of that option, adds the proposer to its
\* supporters and appends exactly one line to the dialogue, a "(duplicate)" notice.
C14_DuplicateRegistration ==
    [][(/\ op'.kind = "register"
        /\ \E o \in DOMAIN state.options : _norm(state.options[o].text) = _norm(op'.text))
       =>
       /\ DOMAIN state'.options = DOMAIN state.options
       /\ state'.option_counter = state.option_counter
       /\ op'.oid \in DOMAIN state.options
       /\ _norm(state.options[op'.oid].text) = _norm(op'.text)
       /\ state'.options[op'.oid].supporters = state.options[op'.oid].supporters \cup {op'.who}
       /\ Len(state'.dialogue) = Len(state.dialogue) + 1
       /\ Cardinality(DuplicateNotices(state'.appended)) = 1
       /\ Len(state'.appended) = 1]_vars

\* The registration that ran last named an existing option in another spelling
\* (case and whitespace), on behalf of an agent that was not its proposer.
C14_Witness ==
    /\ op.kind = "register"
    /\ op.oid \in DOMAIN state.options
    /\ state.options[op.oid].text # op.text
    /\ state.options[op.oid].proposer # op.who
    /\ op.who \in state.options[op.oid].supporters
    /\ DuplicateNotices(state.appended) # {}

\* C15: after Alice registered "hire two engineers" and Dana then registered
\* "Hire   Two Engineers.", the registry holds the single option O1, its supporters
\* are Alice and Dana, and one "(duplicate)" notice was appended.
C15_MergeWithPeriod ==
    (/\ op.n = 2 /\ op.kind = "register" /\ ~op.exc
     /\ op.text = HIRE_PERIOD /\ op.who = "Dana"
     /\ 1 \in DOMAIN state.options
     /\ state.options[1].text = HIRE_PLAIN /\ state.options[1].proposer = "Alice")
    =>
    /\ DOMAIN state.options = {1}
    /\ state.options[1].supporters = {"Alice", "Dana"}
    /\ Cardinality(DuplicateNotices(state.appended)) = 1

\* C16: a run of four agents whose supplied stances are all "for", in which no option
\* is proposed and that is not cancelled, ends with the decision "for".
C16_SuppliedStancesDecide ==
    (pc = "done" /\ ~cancel_flag /\ Len(state.agents) = 4 /\ OptionIds(state) = {})
        => state.decision = <<"for">>

\* C17: for every stage, the dialogue holds at most two "(INTERRUPTION)" lines with
\* the tag of that stage.
C17_TwoInterruptionsPerStage ==
    \A st \in StageSet : interrupted[st] <= MAX_INTERRUPTIONS

\* The step is a call of chair_step by the orchestrator.
ChairStepTaken == pc = "round" /\ pc' # "round" /\ ~cancel_flag

\* The stage after st in STAGES, the last stage for the last.
StageAfter(st) ==
    IF StageIndex(st) < Len(STAGES) THEN STAGES[StageIndex(st) + 1] ELSE STAGES[Len(STAGES)]

\* The stances of s are not all equal.
NonUnanimous(s) == Cardinality(Values(s.stances)) > 1

\* The step advanced the stage at a max-turn threshold: the chair's, or the agent
\* step's after ten stage-turns.
ThresholdAdvance ==
    \E i \in DOMAIN state'.appended :
        /\ state'.appended[i].tag \in StageSet
        /\ state'.appended[i].text \in
             {"CHAIR (Alice): We've had enough contributions here. Let's move on.",
              "CHAIR (Alice): We've spent enough time here, let's move on."}

\* C18: in a run in which no turn sets end_stage, a step that changes the stage from
\* one before decide while the stances are not unanimous, before and after it, and
\* the run is not cancelled, is an advance at a max-turn threshold; and a run that
\* has not reached decide has taken at most 36 turns.
C18_ForcedDecide ==
    [][/\ (/\ state'.stage # state.stage
           /\ ~cancel_flag
           /\ StageIndex(state.stage) < StageIndex("decide")
           /\ NonUnanimous(state) /\ NonUnanimous(state'))
          => ThresholdAdvance
       /\ StageIndex(state'.stage) < StageIndex("decide") => state'.turn <= 36]_vars

\* C19: a chair_step called with stage_turns at or above the maximum of the stage
\* (6, 6, 8, 6, 6, 4, 2) appends the "Let's move on" line, tagged with the stage, and
\* nothing else, advances to the next stage and records no decision.
C19_MoveOnFirst ==
    [][(ChairStepTaken /\ state.stage_turns >= max_turns[state.stage]) =>
          /\ pc' # "raised"
          /\ state'.stage = StageAfter(state.stage)
          /\ state'.stage # state.stage
          /\ state'.stage_turns = 0
          /\ state'.decision = state.decision
          /\ Len(state'.appended) = 1
          /\ state'.appended[1].tag = state.stage
          /\ state'.appended[1].text =
                "CHAIR (Alice): We've had enough contributions here. Let's move on."]_vars

\* The chair has just moved the meeting on from discuss, where the maximum is 8.
C19_Witness ==
    /\ pc = "agents"
    /\ state.stage = "options"
    /\ state.stage_turns = 0
    /\ Len(state.appended) = 1
    /\ state.appended[1].tag = "discuss"
    /\ state.appended[1].text = "CHAIR (Alice): We've had enough contributions here. Let's move on."
    /\ NonUnanimous(state)

\* C20: every line appended to the dialogue begins with the tag "[<stage>]" of a
\* stage of STAGES or with the exact prefix ">>> DECISION:".
C20_LinePrefix ==
    \A i \in DOMAIN state.appended :
        \/ state.appended[i].tag \in StageSet
        \/ StartsWith(state.appended[i].text, DECISION_PREFIX)

\* C21: a step that appends lines to the dialogue leaves the turn counter strictly
\* greater than it was, and no step decreases the turn counter.
C21_TurnIncreasesOnAppend ==
    [][/\ Len(state'.dialogue) > Len(state.dialogue) => state'.turn > state.turn
       /\ state'.turn >= state.turn]_vars

\* C22: a call of register_option on a text that names no existing option, whether
\* the analyst's evaluation of its attributes returns or fails, does not raise and
\* stores the option under the id the counter was incremented to, the proposer its
\* only supporter.
C22_AttributeFailureTolerated ==
    [][(op'.kind = "register" /\ FindDuplicate(state, op'.text) = 0) =>
          /\ ~op'.exc
          /\ state'.option_counter = state.option_counter + 1
          /\ state'.option_counter \in DOMAIN state'.options
          /\ state'.options[state'.option_counter].supporters = {op'.who}]_vars

\* C23: a chair_step that calls the language model for guidance, whether the call
\* returns or fails, does not raise: it appends one chair line tagged with the stage
\* (the guidance, or the fallback "Let's continue."), increments stage_turns and
\* turn, and the orchestrator goes on to the agents.
C23_ChairFailureFallsBack ==
    [][(ChairStepTaken /\ llm') =>
          /\ pc' = "agents"
          /\ state'.turn = state.turn + 1
          /\ state'.stage_turns = state.stage_turns + 1
          /\ state'.stage = state.stage
          /\ Len(state'.appended) = 1
          /\ state'.appended[1].tag = state.stage]_vars

\* The step is a call of summarizer_step by the orchestrator.
SummarizerStepTaken ==
    pc = "after_agents" /\ pc' # "after_agents" /\ ~cancel_flag /\ ~Terminal(state)

\* C24: a summarizer_step, whether the summary call returns or fails, does not end
\* the run: it appends the summary line or no line, leaves the rest of the state
\* unchanged, and the next round starts.
C24_SummarizerFailureSkipped ==
    [][SummarizerStepTaken =>
          /\ pc' = "loop"
          /\ Len(state'.appended) <= 1
          /\ [Fields(state') EXCEPT !.dialogue = <<>>] = [Fields(state) EXCEPT !.dialogue = <<>>]]_vars

\* The step is a call of agent_step by the orchestrator.
AgentStepTaken == pc = "agents" /\ ~cancel_flag /\ ~cancel_flag'

\* C25: an agent step that reaches its calls of the language model, whether the
\* structured generate call returns or fails, goes on with a turn (the one returned,
\* or the minimal safe turn): the failure does not leave agent_step, so an exception
\* that leaves it was raised after lines of the turn were written.
C25_GenerateFailureSafeTurn ==
    [][(AgentStepTaken /\ llm' /\ pc' = "raised") =>
          /\ Len(state'.appended) >= 1
          /\ state'.appended[1].tag = state.stage]_vars

\* C26: the turn sanitize_turn returns has an asker and a responder of the roster
\* that differ, a reaction of VALID_REACTIONS, a next_stage of STAGES and a
\* non-empty message, whatever the turn and the roster (of two names or more) it
\* was called on.
C26_SanitizedTurnValid ==
    sanitized.n > 0 =>
        /\ sanitized.turn.asker \in SeqToSet(state.agents)
        /\ sanitized.turn.responder \in SeqToSet(state.agents)
        /\ sanitized.turn.asker # sanitized.turn.responder
        /\ sanitized.turn.reaction \in VALID_REACTIONS
        /\ sanitized.turn.next_stage \in StageSet
        /\ sanitized.turn.message # ""

\* The decision of s is the one the chair or the agent step records for the registry
\* and the stances of s: "<id>: <text>" of best_option when an option exists,
\* otherwise a stance held by a maximal number of agents.
DecisionOfRecord(s) ==
    IF OptionIds(s) # {}
    THEN s.decision = <<best_option(s), ": ", s.options[best_option(s)].text>>
    ELSE /\ Len(s.decision) = 1
         /\ s.decision[1] \in StanceSet
         /\ \A v \in StanceSet : CountOf(s, s.decision[1]) >= CountOf(s, v)

\* C27: a chair or agent step of a run that is not cancelled that takes the meeting
\* out of the decide stage does not raise and leaves a decision recorded: the best
\* option if an option exists, otherwise a stance held by a maximal number of agents.
C27_DecisionOnLeavingDecide ==
    [][(state.stage = "decide" /\ state'.stage # "decide" /\ ~cancel_flag) =>
          /\ pc' # "raised"
          /\ state'.decision # None
          /\ DecisionOfRecord(state')]_vars

\* The closing lines of the chair among lines.
ClosingLines(lines) ==
    {i \in DOMAIN lines :
        /\ lines[i].tag = "confirm"
        /\ lines[i].text =
              "CHAIR (Alice): Thank you everyone. The meeting is concluded. Final decision"}

\* C28: a run that was not cancelled and has emitted its final event in stage confirm
\* has ended on the chair's closing line: the handler that ran last appended it, and
\* it is among the dialogue events emitted.
C28_ClosingLineEmitted ==
    (pc = "done" /\ ~cancel_flag /\ state.stage = "confirm") =>
        \E i \in ClosingLines(state.appended) :
            \E k \in DOMAIN DialogueEvents : DialogueEvents[k].line = state.appended[i].n

\* C29: in a run whose turns carry no next_stage that is a stage, an agent step
\* leaves the meeting in the stage it is in or moves it to the successor of that
\* stage: a next_stage that is no stage is read as the current stage.
C29_InvalidNextStageStays ==
    [][AgentStepTaken => state'.stage \in {state.stage, StageAfter(state.stage)}]_vars

\* Option o of s ranks at least as high as option p: a higher score (supporters
\* minus opponents), or the same score and more supporters, or the same score and
\* supporters and a first_turn that is not later.
RanksAtLeast(s, o, p) ==
    LET so == Cardinality(s.options[o].supporters) - Cardinality(s.options[o].opponents)
        sp == Cardinality(s.options[p].supporters) - Cardinality(s.options[p].opponents)
        no == Cardinality(s.options[o].supporters)
        np == Cardinality(s.options[p].supporters)
    IN  \/ so > sp
        \/ so = sp /\ no > np
        \/ so = sp /\ no = np /\ s.options[o].first_turn <= s.options[p].first_turn

ChangedBallots(s, t) ==
    {o \in DOMAIN s.options : o \notin DOMAIN t.options \/ VoteSets(t, o) # VoteSets(s, o)}

\* The "vote ignored" notices among lines.
IgnoredNotices(lines) ==
    {i \in DOMAIN lines :
        /\ lines[i].tag \in StageSet
        /\ lines[i].text = "(vote ignored) No option available to vote on."}

\* The option a vote with reference ref is applied to in s: ref when it names an
\* option of s, else the option with the largest id.
VoteTarget(s, ref) ==
    IF ref \in DOMAIN s.options THEN ref
    ELSE CHOOSE o \in DOMAIN s.options : \A p \in DOMAIN s.options : o >= p

\* What a call of vote_option does apart from the number of options whose vote sets
\* it changes: on an empty registry it appends a "vote ignored" notice and leaves
\* options and votes_cast unchanged; otherwise the voter is, in the option the vote
\* is applied to, in the set of the vote and in no other, no option is added or
\* removed, and votes_cast increases by 1.
VoteApplied ==
    IF DOMAIN state.options = {}
    THEN /\ IgnoredNotices(state'.appended) # {}
         /\ state'.options = state.options
         /\ state'.metrics.votes_cast = state.metrics.votes_cast
    ELSE /\ DOMAIN state'.options = DOMAIN state.options
         /\ op'.who \in CASE op'.vote = "support" -> state'.options[VoteTarget(state, op'.ref)].supporters
                          [] op'.vote = "oppose"  -> state'.options[VoteTarget(state, op'.ref)].opponents
                          [] OTHER                -> state'.options[VoteTarget(state, op'.ref)].abstainers
         /\ SetsHolding(state', VoteTarget(state, op'.ref), op'.who) = 1
         /\ state'.metrics.votes_cast = state.metrics.votes_cast + 1

\* C31 as stated: a call of vote_option on a registry that is not empty changes the
\* vote sets of exactly one option.
C31_VoteChangesExactlyOne ==
    [][op'.kind = "vote" =>
          /\ VoteApplied
          /\ DOMAIN state.options # {} => Cardinality(ChangedBallots(state, state')) = 1]_vars

\* C31: a call of vote_option applies the vote to the option its reference names, or
\* to the option with the largest id when it names none; on an empty registry it only
\* appends a "vote ignored" notice; otherwise no option but the one the vote is
\* applied to has its vote sets changed, and votes_cast increases by 1.
C31_VoteChangesOnlyTarget ==
    [][op'.kind = "vote" =>
          /\ VoteApplied
          /\ DOMAIN state.options # {} =>
                ChangedBallots(state, state') \subseteq {VoteTarget(state, op'.ref)}]_vars

\* A vote whose reference names no option has been applied to the second of two
\* options, the voter now among its opponents.
C31_Witness ==
    /\ op.kind = "vote" /\ op.ref = 9 /\ op.vote = "oppose"
    /\ DOMAIN state.options = {1, 2}
    /\ op.who \in state.options[2].opponents
    /\ op.who \notin state.options[1].opponents

\* The "Time's up" lines among lines.
TimeUpLines(lines) ==
    {i \in DOMAIN lines :
        lines[i].tag \in StageSet /\ lines[i].text = "Time's up! Chair forces decision."}

\* C32: a chair or agent step that changes the stage, the forced jump to decide
\* after 40 turns included, leaves stage_turns, interruptions_this_stage and
\* accepts_this_stage at 0 and question_seen empty.
C32_CountersResetOnStageChange ==
    [][(pc \in {"round", "agents"} /\ ~cancel_flag /\ state'.stage # state.stage) =>
          /\ state'.stage_turns = 0
          /\ state'.interruptions_this_stage = 0
          /\ state'.accepts_this_stage = 0
          /\ state'.question_seen = {}]_vars

\* The immutable part of option o of s.
OptionIdentity(s, o) ==
    <<s.options[o].text, s.options[o].proposer, s.options[o].first_stage, s.options[o].first_turn>>

\* C33: after every step the option ids are exactly 1..n with n = option_counter =
\* metrics.options_proposed, every option that existed before the step still exists,
\* and its text, proposer, first_stage and first_turn are what they were.
C33_RegistryGrowsOnly ==
    [][/\ DOMAIN state'.options = 1..state'.option_counter
       /\ state'.metrics.options_proposed = state'.option_counter
       /\ \A o \in DOMAIN state.options :
             /\ o \in DOMAIN state'.options
             /\ OptionIdentity(state', o) = OptionIdentity(state, o)]_vars

\* A step that is one persuasion attempt.
ShiftAttempted == op'.kind = "shift" /\ op'.n # op.n

\* The distance between two stances in STANCE_ORDER.
StanceDistance(a, b) ==
    IF StanceIndex(a) >= StanceIndex(b) THEN StanceIndex(a) - StanceIndex(b)
    ELSE StanceIndex(b) - StanceIndex(a)

\* C34: a persuasion attempt of a speaker on a listener leaves every stance but the
\* listener's as it was; the listener's stance moves at most one place in STANCE_ORDER
\* and never further from the speaker's stance; a failed sample changes no stance.
C34_ShiftOneStepToward ==
    [][ShiftAttempted =>
          LET l  == op'.listener
              sp == state.stances[op'.speaker]
          IN  /\ DOMAIN state'.stances = DOMAIN state.stances
              /\ \A a \in DOMAIN state.stances : a # l => state'.stances[a] = state.stances[a]
              /\ StanceDistance(state'.stances[l], state.stances[l]) <= 1
              /\ StanceDistance(state'.stances[l], sp) <= StanceDistance(state.stances[l], sp)
              /\ ~op'.sway => state'.stances = state.stances]_vars

\* A listener who was against has been swayed by a speaker who is for, and is neutral.
C34_Witness ==
    /\ op.n > 0
    /\ op.kind = "shift"
    /\ op.sway
    /\ state.stances[op.speaker] = "for"
    /\ state.stances[op.listener] = "neutral"
    /\ \E i \in DOMAIN state.appended : state.appended[i].text = "(seems swayed)"

\* C35: the keys of stances are the agents of the roster and every value is a stance.
C35_StancesOverRoster ==
    /\ DOMAIN state.stances = SeqToSet(state.agents)
    /\ \A a \in DOMAIN state.stances : state.stances[a] \in StanceSet

\* The lines of a step with the words `words`.
LinesSaying(lines, words) ==
    {i \in DOMAIN lines : lines[i].tag \in StageSet /\ lines[i].text = words}

\* An agent step that takes the action item branch: it called the language model,
\* returned, counted no turn and did not dismiss the question as asked already.
ActionItemStep ==
    /\ AgentStepTaken
    /\ llm'
    /\ pc' # "raised"
    /\ state'.turn = state.turn
    /\ LinesSaying(state'.appended,
                   "CHAIR (Alice): That's been asked already - let's move forward.") = {}

\* C36: an agent step on a turn with an action item changes actions only by appending
\* the item with an "ACTION RAISED" line, and changes the stage only if it appended
\* the item; after every step actions has no item twice and metrics.actions_raised is
\* its length.
C36_ActionItemOnce ==
    [][/\ ActionItemStep =>
             /\ state'.actions # state.actions =>
                   /\ Len(state'.actions) = Len(state.actions) + 1
                   /\ SubSeq(state'.actions, 1, Len(state.actions)) = state.actions
                   /\ LinesSaying(state'.appended, "ACTION RAISED") # {}
             /\ state'.stage # state.stage => state'.actions # state.actions
       /\ \A i \in DOMAIN state'.actions : \A j \in DOMAIN state'.actions :
             state'.actions[i] = state'.actions[j] => i = j
       /\ state'.metrics.actions_raised = Len(state'.actions)]_vars

\* C37: a step of one of two runs in one process leaves the MeetingState of the
\* other as it was: a step of the first run that of the second, once started, and a
\* step of the second run, its start included, that of the first.
C37_RunsIsolated ==
    [][/\ (peer' = peer /\ peer.started) =>
             PeerStateOf(peer', state') = PeerStateOf(peer, state)
       /\ (peer' # peer) => state' = state]_vars

\* C38: a stop request for meeting m sets the cancel flag of every stream request of
\* m whose simulation is running and leaves the flags of the requests of other
\* meetings as they were; and a stream request whose simulation was running when a
\* stop request for its meeting was handled ends with the meeting's status
\* "cancelled".
C38_StopCancelsEveryStream ==
    [][\A r \in DOMAIN streams :
          /\ (op'.kind = "stop" /\ streams[r].meeting = op'.meeting
                 /\ streams[r].pc = "streaming") => streams'[r].cancelled
          /\ (op'.kind = "stop" /\ streams[r].meeting # op'.meeting) =>
                 streams'[r].cancelled = streams[r].cancelled
          /\ (streams[r].stopped /\ streams[r].pc # "ended" /\ streams'[r].pc = "ended") =>
                 meeting_status'[streams[r].meeting] = "cancelled"]_vars

====
